---------------------------- MODULE Spec2Model ----------------------------
(***************************************************************************)
(* The quality review pipeline of src/src/ceo-quality-control-agent.py:    *)
(* QualityReviewEngine (reviewers, metrics, classification), AutoFixEngine *)
(* (the five transformers) and CEOQualityControlAgent (queue, review pass, *)
(* revision and escalation, dashboard and agent records).                  *)
(*                                                                         *)
(* Representation.                                                         *)
(*  - A content is the sequence of its lines (content.split('\n')); a line *)
(*    is its indentation and its text.  The regular expressions of the     *)
(*    source are tables over the texts of a finite universe of lines: the  *)
(*    input lines below and every line a transformer writes.               *)
(*  - A sub-score is a number of tenths (0..10), overall_score a number of *)
(*    sixtieths (0..60): the mean of six sub-scores in tenths.  The        *)
(*    arithmetic is exact; the rounding of binary floating point is not    *)
(*    modelled.                                                            *)
(*  - Line 615 of the source reads the name work_item, which                *)
(*    _calculate_documentation_completeness does not bind: as shipped the  *)
(*    call raises NameError, in every review.  The model keeps both        *)
(*    outcomes of a review: it raises (ReviewRaises, RereviewRaises), or   *)
(*    it completes with work_item read as the item under review, which is  *)
(*    what the rest of the pipeline is written for.                        *)
(*  - A review pass runs without suspension on the event loop: the other   *)
(*    tasks act only while the consumer waits in work_queue.get().  The    *)
(*    pass is nevertheless split into steps (pc) so that its intermediate  *)
(*    states can be stated.                                                *)
(*  - The environment: a file change creates a new WorkItem               *)
(*    (HandleFileChange); a client may put an item that waits for revision *)
(*    back in the queue, its content as it stands (Resubmit).  The agent   *)
(*    that wrote a file is a function of its path.  A notice, an           *)
(*    escalation report and a write of the fixed file may each fail; the   *)
(*    notices and reports of a pass are counted in log.                    *)
(*  - The monitor task (MonitorAgentPerformance) is one step: like a pass *)
(*    it never yields to the event loop before it sleeps.  swept marks the *)
(*    state it leaves; scores keeps the overall scores each agent record   *)
(*    was updated with.                                                    *)
(*                                                                         *)
(* Specifications.  Spec is the agent from its construction.  SpecSeasoned *)
(* is the same agent with the records of earlier passes.  SpecClassify,    *)
(* SpecFix and SpecReview apply one function of the engines to inputs      *)
(* drawn from bounded sets: the classification, a transformer (twice), the *)
(* first review of a new item.  SpecDispatch is the first review of an     *)
(* item of any WorkType, SpecAutoFix one call of _attempt_auto_fixes in    *)
(* which any transformer may raise.  SpecLive is Spec with the consumer    *)
(* task scheduled fairly; history records what was put in the queue, taken *)
(* from it and reviewed.                                                   *)
(*                                                                         *)
(* SpecManager is the AbortControllerManager of                            *)
(* src/src/memory-leak-prevention.py, called by two threads: the variable  *)
(* manager holds its dictionaries, its lock and the frames of the calls    *)
(* under way.                                                              *)
(***************************************************************************)
EXTENDS Integers, Sequences, FiniteSets, TLC

(***************************************************************************)
(* Bounds of the model.                                                    *)
(***************************************************************************)
\* work items created by file changes
MaxItems == 2
\* items waiting in the queue
MaxQueue == 2
\* review passes started
MaxPasses == 4

(***************************************************************************)
(* Lines and contents.                                                     *)
(***************************************************************************)
\* The text of every line (without its indentation) that occurs in an input or that a
\* transformer of AutoFixEngine writes.
Texts ==
    {"", "\"\"\"", "\"\"\"Integration test example\"\"\"", "\"\"\"Unit test example\"\"\"",
     "# TODO: Add integration test", "# TODO: Add unit test", "# integration test", "# note",
     "## Examples", "## Overview", "## Usage", "Some text.", "TODO: Add code examples",
     "TODO: Add function description", "TODO: Add project overview", "TODO: Add usage instructions",
     "assert True", "database.ui.business()", "def f():", "def test_a():",
     "def test_integration_example():", "def test_unit_example():", "eval(x)",
     "except Exception as e:", "import logging", "import os", "logger = logging.getLogger(__name__)",
     "logger.error(f\"Error: {e}\")", "raise", "try:",
     "while True: time.sleep(5); recursive_factorial(); [0 for i in range(10000)]", "x = 1"}

\* error_patterns: the texts one of them matches (re.IGNORECASE).
ErrorHandlingTexts ==
    {"except Exception as e:", "logger.error(f\"Error: {e}\")", "try:"}

\* logging_patterns: the texts one of them matches (re.IGNORECASE).
LoggingTexts ==
    {"logger = logging.getLogger(__name__)", "logger.error(f\"Error: {e}\")"}

\* doc_patterns '//.*' and '#.*': the texts one of them matches.
CommentTexts ==
    {"# TODO: Add integration test", "# TODO: Add unit test", "# integration test", "# note",
     "## Examples", "## Overview", "## Usage"}

\* Occurrences of three double quotes in a text; doc_patterns[0] (re.DOTALL) needs two in the content.
TripleQuotes(text) ==
    CASE text \in {"\"\"\""} -> 1
      [] text \in {"\"\"\"Integration test example\"\"\"", "\"\"\"Unit test example\"\"\""} -> 2
      [] OTHER -> 0

\* complexity_patterns: the number of matches re.findall returns in a text, summed over the patterns.
Branches(text) ==
    CASE text \in {"except Exception as e:", "try:"} -> 1
      [] text \in {"while True: time.sleep(5); recursive_factorial(); [0 for i in range(10000)]"} -> 2
      [] OTHER -> 0

\* security_patterns: the texts the pattern of an issue type matches (re.IGNORECASE).
SecurityTexts(issue_type) ==
    CASE issue_type = "dangerous_eval" -> {"eval(x)"}
      [] issue_type = "dangerous_exec" -> {}
      [] issue_type = "dangerous_input" -> {}
      [] issue_type = "dangerous_pickle" -> {}
      [] issue_type = "dangerous_shell" -> {}
      [] issue_type = "dangerous_subprocess" -> {}
      [] issue_type = "hardcoded_password" -> {}
      [] issue_type = "hardcoded_api_key" -> {}
      [] issue_type = "hardcoded_secret" -> {}

\* section_patterns of _has_section: the texts one of them matches for a section (re.IGNORECASE).
SectionTexts(section) ==
    CASE section = "overview" -> {"## Overview"}
      [] section = "usage" -> {"## Usage"}
      [] section = "examples" -> {"## Examples"}
      [] section = "installation" -> {}
      [] section = "configuration" -> {}

\* test_patterns of _has_test_type: the texts one of the patterns of a test type matches (re.IGNORECASE).
TestTypeTexts(test_type) ==
    CASE test_type = "unit" ->
             {"def test_a():", "def test_integration_example():", "def test_unit_example():"}
      [] test_type = "integration" ->
             {"\"\"\"Integration test example\"\"\"", "# TODO: Add integration test",
              "# integration test", "def test_integration_example():"}
      [] test_type = "performance" -> {}
      [] test_type = "security" -> {}
      [] OTHER -> {}

\* performance_issues: the texts the k-th pattern matches (re.IGNORECASE).
PerformanceTexts(k) ==
    CASE k = 1 -> {"while True: time.sleep(5); recursive_factorial(); [0 for i in range(10000)]"}
      [] k = 2 -> {"while True: time.sleep(5); recursive_factorial(); [0 for i in range(10000)]"}
      [] k = 3 -> {"while True: time.sleep(5); recursive_factorial(); [0 for i in range(10000)]"}
      [] k = 4 -> {"while True: time.sleep(5); recursive_factorial(); [0 for i in range(10000)]"}

\* concerns of _check_separation_of_concerns: the texts in which re.search finds the word (re.IGNORECASE).
ConcernTexts(concern) ==
    CASE concern = "database" -> {"database.ui.business()"}
      [] concern = "ui" -> {"database.ui.business()"}
      [] concern = "business" -> {"database.ui.business()"}
      [] concern = "validation" -> {}
      [] concern = "logging" -> {"import logging", "logger = logging.getLogger(__name__)"}

\* r'def\s+\w+': the number of matches re.findall returns in a text.
DefCount(text) ==
    CASE text \in {"def f():", "def test_a():", "def test_integration_example():",
            "def test_unit_example():"} -> 1
      [] OTHER -> 0

\* Texts that contain the substring 'def '.
DefSubstringTexts ==
    {"def f():", "def test_a():", "def test_integration_example():", "def test_unit_example():"}

\* Texts of the lines re.match(r'\s*def\s+', line) accepts.
DefTexts ==
    {"def f():", "def test_a():", "def test_integration_example():", "def test_unit_example():"}

\* Texts for which line.strip().startswith('try:').
TryTexts ==
    {"try:"}

\* Texts that contain the substring 'import logging'.
ImportLoggingTexts ==
    {"import logging"}

\* Texts that start with 'import ' or 'from ' (a line starts with them when its indentation is 0).
ImportTexts ==
    {"import logging", "import os"}

\* r'[.!?]+': the number of matches re.findall returns in a text.
SentenceEnds(text) ==
    CASE text \in {"Some text.", "logger = logging.getLogger(__name__)", "logger.error(f\"Error: {e}\")",
            "while True: time.sleep(5); recursive_factorial(); [0 for i in range(10000)]"} -> 1
      [] text \in {"database.ui.business()"} -> 2
      [] OTHER -> 0

\* len(text.split()).
Words(text) ==
    CASE text \in {"\"\"\"", "database.ui.business()", "eval(x)", "raise", "try:"} -> 1
      [] text \in {"# note", "## Examples", "## Overview", "## Usage", "Some text.", "assert True",
            "def f():", "def test_a():", "def test_integration_example():",
            "def test_unit_example():", "import logging", "import os",
            "logger.error(f\"Error: {e}\")"} -> 2
      [] text \in {"\"\"\"Integration test example\"\"\"", "\"\"\"Unit test example\"\"\"",
            "# integration test", "logger = logging.getLogger(__name__)", "x = 1"} -> 3
      [] text \in {"TODO: Add code examples", "TODO: Add function description",
            "TODO: Add project overview", "TODO: Add usage instructions", "except Exception as e:"} -> 4
      [] text \in {"# TODO: Add integration test", "# TODO: Add unit test"} -> 5
      [] text \in {"while True: time.sleep(5); recursive_factorial(); [0 for i in range(10000)]"} -> 9
      [] OTHER -> 0

\* The vowel groups _count_syllables counts in a text.
SyllablesIn(text) ==
    CASE text \in {"def f():", "try:"} -> 1
      [] text \in {"# note", "eval(x)", "raise"} -> 2
      [] text \in {"## Examples", "## Overview", "## Usage", "Some text.", "assert True", "def test_a():",
            "import os"} -> 3
      [] text \in {"import logging"} -> 4
      [] text \in {"# integration test"} -> 5
      [] text \in {"\"\"\"Unit test example\"\"\"", "# TODO: Add unit test"} -> 6
      [] text \in {"def test_unit_example():", "except Exception as e:", "logger.error(f\"Error: {e}\")"} -> 7
      [] text \in {"\"\"\"Integration test example\"\"\"", "# TODO: Add integration test",
            "TODO: Add code examples", "TODO: Add function description",
            "TODO: Add project overview", "database.ui.business()"} -> 8
      [] text \in {"TODO: Add usage instructions", "def test_integration_example():",
            "logger = logging.getLogger(__name__)"} -> 9
      [] text \in {"while True: time.sleep(5); recursive_factorial(); [0 for i in range(10000)]"} -> 18
      [] OTHER -> 0

(***************************************************************************)
(* File paths: what the handlers read of a path.                           *)
(***************************************************************************)
Paths ==
    {"/w/projects/p1/app.py", "/w/projects/p1/README.md",
     "/w/projects/p2/tests/cases.yaml", "/w/projects/p2/architecture.yaml"}

\* Path(file_path).suffix.lower()
PathSuffix(file_path) ==
    CASE file_path = "/w/projects/p1/app.py" -> ".py"
      [] file_path = "/w/projects/p1/README.md" -> ".md"
      [] file_path \in {"/w/projects/p2/tests/cases.yaml",
                        "/w/projects/p2/architecture.yaml"} -> ".yaml"

\* 'test' in file_path.lower()
PathHasTest(file_path) == file_path \in {"/w/projects/p2/tests/cases.yaml"}

\* 'architect' in file_path.lower()
PathHasArchitect(file_path) == file_path \in {"/w/projects/p2/architecture.yaml"}

\* the path part after "projects"
_extract_project_name(file_path) ==
    CASE file_path \in {"/w/projects/p1/app.py", "/w/projects/p1/README.md"} -> "p1"
      [] file_path \in {"/w/projects/p2/tests/cases.yaml",
                        "/w/projects/p2/architecture.yaml"} -> "p2"
      [] OTHER -> "unknown_project"

_determine_work_type(file_path) ==
    IF PathSuffix(file_path) \in {".py", ".js", ".ts", ".java", ".go", ".rs", ".cpp", ".c"}
    THEN "code"
    ELSE IF PathSuffix(file_path) \in {".md", ".rst", ".txt"} THEN "documentation"
    ELSE IF PathHasTest(file_path) THEN "tests"
    ELSE IF PathSuffix(file_path) \in {".yaml", ".yml", ".json"} /\ PathHasArchitect(file_path)
    THEN "architecture"
    ELSE "code"

\* _should_review_file: no exclude pattern is in the path and the path ends with a file pattern
_should_review_file(file_path) ==
    PathSuffix(file_path) \in {".py", ".js", ".ts", ".md", ".yaml", ".json"}

Line(n, text) == [indent |-> n, text |-> text]

\* str.join / str.split('\n'): a content is never the empty sequence ("" is one empty line)
RECURSIVE SumLines(_, _, _)
SumLines(content, F(_), i) ==
    IF i > Len(content) THEN 0 ELSE F(content[i].text) + SumLines(content, F, i + 1)

\* re.search(pattern, content) for patterns that match within one line
Search(content, texts) == \E i \in DOMAIN content : content[i].text \in texts

(***************************************************************************)
(* QualityReviewEngine: detection rules.                                   *)
(***************************************************************************)
Issue(issue_type, severity, description, auto_fixable) ==
    [issue_type |-> issue_type, severity |-> severity,
     description |-> description, auto_fixable |-> auto_fixable]

\* the texts that end in "raise": 'raise\s+' matches one when a line follows it
RaiseTexts == {"raise"}

_has_error_handling(content) ==
    \/ Search(content, ErrorHandlingTexts)
    \/ \E i \in 1..(Len(content) - 1) : content[i].text \in RaiseTexts

_has_logging(content) == Search(content, LoggingTexts)

_has_documentation(content) ==
    \/ SumLines(content, TripleQuotes, 1) >= 2
    \/ Search(content, CommentTexts)

_calculate_complexity(content) == 1 + SumLines(content, Branches, 1)

security_patterns ==
    << "dangerous_eval", "dangerous_exec", "dangerous_input", "dangerous_pickle",
       "dangerous_shell", "dangerous_subprocess", "hardcoded_password",
       "hardcoded_api_key", "hardcoded_secret" >>

SecurityDescription(issue_type) ==
    CASE issue_type = "dangerous_eval" -> "Use of eval() function is dangerous"
      [] issue_type = "dangerous_exec" -> "Use of exec() function is dangerous"
      [] issue_type = "dangerous_input" -> "Direct user input without validation"
      [] issue_type = "dangerous_pickle" -> "Pickle deserialization is dangerous"
      [] issue_type = "dangerous_shell" -> "Shell injection vulnerability"
      [] issue_type = "dangerous_subprocess" -> "Subprocess with shell=True is dangerous"
      [] issue_type = "hardcoded_password" -> "Hardcoded password detected"
      [] issue_type = "hardcoded_api_key" -> "Hardcoded API key detected"
      [] issue_type = "hardcoded_secret" -> "Hardcoded secret detected"

RECURSIVE SecurityIssuesFrom(_, _)
SecurityIssuesFrom(content, k) ==
    IF k > Len(security_patterns) THEN << >>
    ELSE LET t == security_patterns[k]
         IN  (IF Search(content, SecurityTexts(t))
              THEN << Issue(t, "critical", SecurityDescription(t), FALSE) >>
              ELSE << >>) \o SecurityIssuesFrom(content, k + 1)

_check_security_issues(content) == SecurityIssuesFrom(content, 1)

_has_section(content, section) == Search(content, SectionTexts(section))

\* words, sentences and syllables of the content
_count_syllables(content) ==
    LET n == SumLines(content, SyllablesIn, 1) IN IF n > 1 THEN n ELSE 1

\* The readability score as a fraction num / den with den > 0:
\*   max(0, min(10, (100 - (206.835 - 1.015 * w/s - 84.6 * syl/w)) / 10))
\* over the common denominator 10000 * s * w.
_calculate_readability(content) ==
    LET s   == SumLines(content, SentenceEnds, 1)
        w   == SumLines(content, Words, 1)
        syl == _count_syllables(content)
        den == 10000 * s * w
        raw == 1015 * w * w + 84600 * syl * s - 106835 * s * w
    IN  IF s = 0 \/ w = 0 THEN [num |-> 0, den |-> 1]
        ELSE [num |-> IF raw < 0 THEN 0 ELSE IF raw > 10 * den THEN 10 * den ELSE raw,
              den |-> den]

_has_test_type(content, test_type) == Search(content, TestTypeTexts(test_type))

\* "test" in file_path.lower(): 0.9, else 0.7 (tenths)
_calculate_test_coverage(file_path) == IF PathHasTest(file_path) THEN 9 ELSE 7

concerns == << "database", "ui", "business", "validation", "logging" >>

_check_separation_of_concerns(content) ==
    Cardinality({k \in DOMAIN concerns : Search(content, ConcernTexts(concerns[k]))}) <= 2

_check_single_responsibility(content) == SumLines(content, DefCount, 1) <= 10

_follows_pattern(content, pattern) ==
    CASE pattern = "separation_of_concerns" -> _check_separation_of_concerns(content)
      [] pattern = "single_responsibility" -> _check_single_responsibility(content)
      [] OTHER -> TRUE

(***************************************************************************)
(* QualityReviewEngine: the reviewers, one per work type.                  *)
(***************************************************************************)
WorkTypes ==
    {"code", "documentation", "tests", "architecture", "design", "deployment",
     "security", "performance"}

\* quality_standards[WorkType.CODE]["max_complexity"]
max_complexity == 10
\* quality_standards[WorkType.DOCUMENTATION]["max_readability_score"]
max_readability_score == 8
\* quality_standards[WorkType.TESTS]["min_coverage"], in tenths
min_coverage == 9

_review_code_quality(content) ==
    (IF ~_has_error_handling(content)
     THEN << Issue("missing_error_handling", "high", "Code lacks proper error handling", TRUE) >>
     ELSE << >>)
    \o (IF ~_has_logging(content)
        THEN << Issue("missing_logging", "medium", "Code lacks proper logging", TRUE) >>
        ELSE << >>)
    \o (IF ~_has_documentation(content)
        THEN << Issue("missing_documentation", "medium", "Code lacks proper documentation", TRUE) >>
        ELSE << >>)
    \o (IF _calculate_complexity(content) > max_complexity
        THEN << Issue("high_complexity", "high", "Code complexity exceeds maximum (10)", FALSE) >>
        ELSE << >>)
    \o _check_security_issues(content)

required_sections == << "overview", "usage", "examples" >>

MissingSectionDescription(section) ==
    CASE section = "overview" -> "Documentation missing required section: overview"
      [] section = "usage" -> "Documentation missing required section: usage"
      [] section = "examples" -> "Documentation missing required section: examples"

RECURSIVE MissingSections(_, _)
MissingSections(content, k) ==
    IF k > Len(required_sections) THEN << >>
    ELSE (IF ~_has_section(content, required_sections[k])
          THEN << Issue("missing_section", "medium",
                        MissingSectionDescription(required_sections[k]), TRUE) >>
          ELSE << >>) \o MissingSections(content, k + 1)

_review_documentation(content) ==
    MissingSections(content, 1)
    \o (LET r == _calculate_readability(content)
        IN  IF r.num > max_readability_score * r.den
            THEN << Issue("poor_readability", "medium",
                          "Documentation readability score exceeds maximum", FALSE) >>
            ELSE << >>)

required_types == << "unit", "integration" >>

MissingTestsDescription(test_type) ==
    CASE test_type = "unit" -> "Missing unit tests"
      [] test_type = "integration" -> "Missing integration tests"

RECURSIVE MissingTestTypes(_, _)
MissingTestTypes(content, k) ==
    IF k > Len(required_types) THEN << >>
    ELSE (IF ~_has_test_type(content, required_types[k])
          THEN << Issue("missing_test_type", "high",
                        MissingTestsDescription(required_types[k]), TRUE) >>
          ELSE << >>) \o MissingTestTypes(content, k + 1)

_review_tests(file_path, content) ==
    MissingTestTypes(content, 1)
    \o (IF _calculate_test_coverage(file_path) < min_coverage
        THEN << Issue("low_test_coverage", "high", "Test coverage below minimum", FALSE) >>
        ELSE << >>)

required_patterns == << "separation_of_concerns", "single_responsibility" >>

MissingPatternDescription(pattern) ==
    CASE pattern = "separation_of_concerns" ->
             "Code doesn't follow separation_of_concerns pattern"
      [] pattern = "single_responsibility" ->
             "Code doesn't follow single_responsibility pattern"

RECURSIVE MissingPatterns(_, _)
MissingPatterns(content, k) ==
    IF k > Len(required_patterns) THEN << >>
    ELSE (IF ~_follows_pattern(content, required_patterns[k])
          THEN << Issue("missing_pattern", "medium",
                        MissingPatternDescription(required_patterns[k]), FALSE) >>
          ELSE << >>) \o MissingPatterns(content, k + 1)

_review_architecture(content) == MissingPatterns(content, 1)

\* the if / elif chain of review_work_item (lines 161-175): the reviewers it runs for
\* a work type, in order; no branch for design, deployment, security, performance
Reviewers(work_type) ==
    CASE work_type = "code" -> << "_review_code_quality" >>
      [] work_type = "documentation" -> << "_review_documentation" >>
      [] work_type = "tests" -> << "_review_tests" >>
      [] work_type = "architecture" -> << "_review_architecture" >>
      [] OTHER -> << >>

\* issues.extend(...) for each reviewer run: the issues of the pass
ReviewIssues(work_type, file_path, content) ==
    LET Run(reviewer) ==
            CASE reviewer = "_review_code_quality" -> _review_code_quality(content)
              [] reviewer = "_review_documentation" -> _review_documentation(content)
              [] reviewer = "_review_tests" -> _review_tests(file_path, content)
              [] reviewer = "_review_architecture" -> _review_architecture(content)
    IN  IF Reviewers(work_type) = << >> THEN << >> ELSE Run(Reviewers(work_type)[1])

(***************************************************************************)
(* QualityReviewEngine: metrics and classification.                        *)
(***************************************************************************)
Max0(x) == IF x > 0 THEN x ELSE 0

_calculate_code_quality_score(content) ==
    Max0(10 - (IF ~_has_error_handling(content) THEN 2 ELSE 0)
            - (IF ~_has_logging(content) THEN 1 ELSE 0)
            - (IF ~_has_documentation(content) THEN 1 ELSE 0)
            - (IF _calculate_complexity(content) > 10 THEN 3
               ELSE IF _calculate_complexity(content) > 5 THEN 1 ELSE 0))

completeness_sections == << "overview", "usage", "examples", "installation", "configuration" >>

\* found_sections / 5 in tenths; 0.8 for every other work type (work_item read as the
\* item under review, see the module comment)
_calculate_documentation_completeness(work_type, content) ==
    IF work_type # "documentation" THEN 8
    ELSE (10 * Cardinality({k \in DOMAIN completeness_sections :
                                _has_section(content, completeness_sections[k])}))
         \div Len(completeness_sections)

_calculate_performance_score(content) ==
    Max0(10 - 2 * Cardinality({k \in 1..4 : Search(content, PerformanceTexts(k))}))

_calculate_architecture_compliance(content) ==
    Max0(10 - 2 * Cardinality({k \in DOMAIN required_patterns :
                                   ~_follows_pattern(content, required_patterns[k])}))

\* a score in tenths as a number of sixtieths
Tenths(x) == 6 * x

\* QualityMetrics.calculate_overall_score: sum(metrics) / len(metrics), the sub-scores
\* in tenths and the result in sixtieths
calculate_overall_score(m) ==
    [m EXCEPT !.overall_score =
        Tenths(m.code_quality + m.test_coverage + m.documentation_completeness
               + m.security_score + m.performance_score + m.architecture_compliance)
            \div 6]

DefaultMetrics ==
    [code_quality |-> 0, test_coverage |-> 0, documentation_completeness |-> 0,
     security_score |-> 0, performance_score |-> 0, architecture_compliance |-> 0,
     overall_score |-> 0]

_calculate_quality_metrics(m, work_type, file_path, content) ==
    calculate_overall_score(
        [m EXCEPT
           !.code_quality = _calculate_code_quality_score(content),
           !.test_coverage = _calculate_test_coverage(file_path),
           !.documentation_completeness =
               _calculate_documentation_completeness(work_type, content),
           !.security_score = Max0(10 - 2 * Len(_check_security_issues(content))),
           !.performance_score = _calculate_performance_score(content),
           !.architecture_compliance = _calculate_architecture_compliance(content)])

\* the metrics as the NameError of line 615 leaves them: the first two sub-scores are
\* assigned, the others and overall_score are not
MetricsWhenRaised(m, file_path, content) ==
    [m EXCEPT !.code_quality = _calculate_code_quality_score(content),
              !.test_coverage = _calculate_test_coverage(file_path)]

HasCritical(issues) == \E k \in DOMAIN issues : issues[k].severity = "critical"

\* the ladder with the boundary at 0.6 excluded
LadderWithStrictLowestBoundary(overall_score, item_issues) ==
    IF HasCritical(item_issues) THEN "unacceptable"
    ELSE IF overall_score >= Tenths(9) THEN "excellent"
    ELSE IF overall_score >= Tenths(8) THEN "good"
    ELSE IF overall_score >= Tenths(7) THEN "acceptable"
    ELSE IF overall_score > Tenths(6) THEN "needs_improvement"
    ELSE "unacceptable"

\* work_item.issues is the list the item holds when the review runs, not the list
\* the review returns
_determine_quality_standard(overall_score, item_issues) ==
    IF HasCritical(item_issues) THEN "unacceptable"
    ELSE IF overall_score >= Tenths(9) THEN "excellent"
    ELSE IF overall_score >= Tenths(8) THEN "good"
    ELSE IF overall_score >= Tenths(7) THEN "acceptable"
    ELSE IF overall_score >= Tenths(6) THEN "needs_improvement"
    ELSE "unacceptable"

\* review_work_item: the classification and the issues it returns, and the metrics it
\* leaves on the item
review_work_item(item) ==
    LET issues  == ReviewIssues(item.work_type, item.file_path, item.content)
        metrics == _calculate_quality_metrics(item.quality_metrics, item.work_type,
                                              item.file_path, item.content)
    IN  [quality_standard |-> _determine_quality_standard(metrics.overall_score, item.issues),
         issues |-> issues,
         quality_metrics |-> metrics]

(***************************************************************************)
(* AutoFixEngine: the five transformers and auto_fix_issue.                *)
(***************************************************************************)
\* the loop of _fix_missing_error_handling from line i on
RECURSIVE ErrorHandlingLines(_, _, _, _)
ErrorHandlingLines(lines, i, in_function, indent_level) ==
    IF i > Len(lines) THEN << >>
    ELSE LET line == lines[i]
         IN  IF line.text \in DefTexts
             THEN << line >> \o ErrorHandlingLines(lines, i + 1, TRUE, line.indent)
             ELSE IF in_function /\ line.text # "" /\ line.indent < indent_level + 4
             THEN << line >> \o ErrorHandlingLines(lines, i + 1, FALSE, indent_level)
             ELSE IF in_function /\ line.text # "" /\ line.text \notin TryTexts
             THEN << Line(indent_level + 4, "try:"),
                     Line(indent_level + 8, line.text),
                     Line(indent_level + 4, "except Exception as e:"),
                     Line(indent_level + 8, "logger.error(f\"Error: {e}\")"),
                     Line(indent_level + 8, "raise") >>
                  \o ErrorHandlingLines(lines, i + 1, FALSE, indent_level)
             ELSE << line >> \o ErrorHandlingLines(lines, i + 1, in_function, indent_level)

_fix_missing_error_handling(content, issue) ==
    IF Search(content, DefSubstringTexts)
    THEN ErrorHandlingLines(content, 1, FALSE, 0)
    ELSE content

\* line.startswith('import ') or line.startswith('from ')
IsImportLine(line) == line.indent = 0 /\ line.text \in ImportTexts

_fix_missing_logging(content, issue) ==
    IF ~Search(content, ImportLoggingTexts)
    THEN SelectSeq(content, IsImportLine)
         \o << Line(0, "import logging"),
               Line(0, "logger = logging.getLogger(__name__)"),
               Line(0, "") >>
         \o SelectSeq(content, LAMBDA line : ~IsImportLine(line))
    ELSE content

RECURSIVE DocumentationLines(_, _)
DocumentationLines(lines, i) ==
    IF i > Len(lines) THEN << >>
    ELSE LET line == lines[i]
         IN  (IF line.text \in DefTexts
              THEN << line,
                      Line(line.indent + 4, "\"\"\""),
                      Line(line.indent + 4, "TODO: Add function description"),
                      Line(line.indent + 4, "\"\"\"") >>
              ELSE << line >>) \o DocumentationLines(lines, i + 1)

_fix_missing_documentation(content, issue) ==
    IF Search(content, DefSubstringTexts) THEN DocumentationLines(content, 1) ELSE content

\* re.search(r'section:\s+(\w+)', issue.description): the section named, "" if none
SectionOf(description) ==
    CASE description = "Documentation missing required section: overview" -> "overview"
      [] description = "Documentation missing required section: usage" -> "usage"
      [] description = "Documentation missing required section: examples" -> "examples"
      [] OTHER -> ""

\* the lines of section_templates[section]
section_templates(section) ==
    CASE section = "overview" ->
             << Line(0, "## Overview"), Line(0, ""), Line(0, "TODO: Add project overview"),
                Line(0, "") >>
      [] section = "usage" ->
             << Line(0, "## Usage"), Line(0, ""), Line(0, "TODO: Add usage instructions"),
                Line(0, "") >>
      [] section = "examples" ->
             << Line(0, "## Examples"), Line(0, ""), Line(0, "TODO: Add code examples"),
                Line(0, "") >>

_fix_missing_section(content, issue) ==
    IF SectionOf(issue.description) # ""
    THEN content \o section_templates(SectionOf(issue.description))
    ELSE content

\* re.search(r'Missing\s+(\w+)\s+tests', issue.description): the test type named, "" if none
TestTypeOf(description) ==
    CASE description = "Missing unit tests" -> "unit"
      [] description = "Missing integration tests" -> "integration"
      [] OTHER -> ""

\* the lines of test_templates[test_type]
test_templates(test_type) ==
    CASE test_type = "unit" ->
             << Line(0, ""), Line(0, "def test_unit_example():"),
                Line(4, "\"\"\"Unit test example\"\"\""),
                Line(4, "# TODO: Add unit test"), Line(4, "assert True"), Line(0, "") >>
      [] test_type = "integration" ->
             << Line(0, ""), Line(0, "def test_integration_example():"),
                Line(4, "\"\"\"Integration test example\"\"\""),
                Line(4, "# TODO: Add integration test"), Line(4, "assert True"),
                Line(0, "") >>

_fix_missing_test_type(content, issue) ==
    IF TestTypeOf(issue.description) # ""
    THEN content \o test_templates(TestTypeOf(issue.description))
    ELSE content

\* a variant of the registry without the transformer of the test reviewer's issues
FixPatternsWithoutTestType ==
    {"missing_error_handling", "missing_logging", "missing_documentation",
     "missing_section"}

\* the keys of fix_patterns
fix_patterns ==
    {"missing_error_handling", "missing_logging", "missing_documentation",
     "missing_section", "missing_test_type"}

\* fix_patterns[issue.issue_type](content, issue)
fix_function(content, issue) ==
    CASE issue.issue_type = "missing_error_handling" -> _fix_missing_error_handling(content, issue)
      [] issue.issue_type = "missing_logging" -> _fix_missing_logging(content, issue)
      [] issue.issue_type = "missing_documentation" -> _fix_missing_documentation(content, issue)
      [] issue.issue_type = "missing_section" -> _fix_missing_section(content, issue)
      [] issue.issue_type = "missing_test_type" -> _fix_missing_test_type(content, issue)

\* a variant of auto_fix_issue that keeps what a transformer wrote before it raised
AutoFixIssueKeepsPartial(content, issue, raises) ==
    IF ~issue.auto_fixable THEN [content |-> content, fixed |-> FALSE]
    ELSE IF issue.issue_type \notin fix_patterns THEN [content |-> content, fixed |-> FALSE]
    ELSE LET fixed_content == fix_function(content, issue)
         IN  IF fixed_content # content
             THEN [content |-> fixed_content, fixed |-> ~raises]
             ELSE [content |-> content, fixed |-> FALSE]

\* auto_fix_issue: the content it leaves on the item and what it returns; raises is
\* whether fix_function raises, which the except clause of line 699 catches before
\* work_item.content is assigned
auto_fix_issue(content, issue, raises) ==
    IF ~issue.auto_fixable THEN [content |-> content, fixed |-> FALSE]
    ELSE IF issue.issue_type \notin fix_patterns THEN [content |-> content, fixed |-> FALSE]
    ELSE IF raises THEN [content |-> content, fixed |-> FALSE]
    ELSE LET fixed_content == fix_function(content, issue)
         IN  IF fixed_content # content
             THEN [content |-> fixed_content, fixed |-> TRUE]
             ELSE [content |-> content, fixed |-> FALSE]

\* the loop of _attempt_auto_fixes from issue k on: the content it leaves on the item,
\* the number of issues fixed and the number of calls of auto_fix_issue; raising is
\* the set of the issues (by position) whose transformer raises
RECURSIVE FixIssues(_, _, _, _)
FixIssues(content, issues, k, raising) ==
    IF k > Len(issues) THEN [content |-> content, fixed_count |-> 0, calls |-> 0]
    ELSE IF ~issues[k].auto_fixable THEN FixIssues(content, issues, k + 1, raising)
    ELSE LET r    == auto_fix_issue(content, issues[k], k \in raising)
             rest == FixIssues(r.content, issues, k + 1, raising)
         IN  [content |-> rest.content,
              fixed_count |-> rest.fixed_count + (IF r.fixed THEN 1 ELSE 0),
              calls |-> rest.calls + 1]

(***************************************************************************)
(* AbortControllerManager of src/src/memory-leak-prevention.py.            *)
(***************************************************************************)
\* the threads that call the manager
Threads == {1, 2}

\* the value a thread holds before any of its calls returned
NoReturn ==
    [op |-> "", controller_id |-> "", value |-> "None", present |-> FALSE,
     removed |-> FALSE]

\* AbortControllerManager(max_controllers): no controller, no listener count, the lock
\* free (0, else the thread that holds it) and no call under way. clock orders the
\* values of datetime.now(), calls counts the calls made, stack holds the frames of
\* the calls of each thread and returned what the latest call of each thread returned
NewManager ==
    [controllers |-> << >>, listener_counts |-> << >>, lock |-> 0, clock |-> 0,
     calls |-> 0, stack |-> [t \in Threads |-> << >>],
     returned |-> [t \in Threads |-> NoReturn]]

(***************************************************************************)
(* The inputs: the contents agents write to the watched files, the         *)
(* configuration files, the committer names git reports.                   *)
(***************************************************************************)
PerformanceLine ==
    Line(4, "while True: time.sleep(5); recursive_factorial(); [0 for i in range(10000)]")

\* what the agents write to the watched files
InputContents(file_path) ==
    CASE file_path = "/w/projects/p1/app.py" ->
             { << Line(0, "# note"), Line(4, "try:") >>,
               << Line(0, "def f():"), PerformanceLine, Line(4, "database.ui.business()") >>,
               << Line(0, "def f():"), Line(4, "eval(x)"), PerformanceLine >>,
               << Line(0, "import logging"), PerformanceLine,
                  Line(4, "database.ui.business()") >> }
      [] file_path = "/w/projects/p1/README.md" ->
             { << Line(0, "## Overview"), Line(0, "## Usage"), Line(0, "## Examples") >>,
               << PerformanceLine >> }
      [] OTHER -> {}

\* _detect_agent_from_file: the committer name git log reports for the file,
\* "unknown_agent" when git fails
_detect_agent_from_file(file_path) ==
    CASE file_path = "/w/projects/p1/app.py" -> "agent-a"
      [] OTHER -> "unknown_agent"

\* default_config["quality_standards"]; min_overall_score in tenths
default_quality_standards ==
    [min_overall_score |-> 8, auto_fix_enabled |-> TRUE,
     max_revision_attempts |-> 3, critical_issue_threshold |-> 0]

\* default_config["agents"]
default_agents ==
    [timeout_seconds |-> 300, max_concurrent_reviews |-> 10, escalation_threshold |-> 3]

\* the sections of default_config that the agent reads or that bound its work
default_config ==
    [quality_standards |-> default_quality_standards, agents |-> default_agents]

\* the configuration files tried, as yaml.safe_load returns them; << >> is no file
UserConfigs ==
    { << >>,
      [quality_standards |-> [min_overall_score |-> 8, auto_fix_enabled |-> FALSE,
                              max_revision_attempts |-> 3, critical_issue_threshold |-> 0],
       agents |-> [timeout_seconds |-> 300, max_concurrent_reviews |-> 1,
                   escalation_threshold |-> 3]],
      [quality_standards |-> [max_revision_attempts |-> 5]] }

\* _load_config: {**default_config, **config} replaces a section as a whole
_load_config(user) ==
    [section \in DOMAIN default_config |->
        IF section \in DOMAIN user THEN user[section] ELSE default_config[section]]

(***************************************************************************)
(* The state of CEOQualityControlAgent.                                    *)
(***************************************************************************)
VARIABLES
    config,             \* self.config
    files,              \* the watched files: path -> content, << >> when absent
    items,              \* the WorkItem objects created so far, by id
    work_queue,         \* self.work_queue: ids, oldest first
    active_reviews,     \* self.active_reviews: the ids it holds
    dashboard_data,     \* self.dashboard_data
    agent_performance,  \* self.agent_performance: agent name -> record
    pc,                 \* position of the consumer task in _review_work_item
    work_item,          \* the id the consumer task holds, 0 when it holds none
    quality_standard,   \* local of _review_work_item
    fixed_count,        \* local of _review_work_item
    passes,             \* number of passes started
    log,                \* history of the current pass, for stating the properties
    improvement_plans,  \* agents sent an improvement plan by the latest sweep, in order
    swept,              \* the latest step was an iteration of the monitor
    scores,             \* agent name -> the overall scores its record was updated with
    history,            \* the ids put in work_queue, taken from it and reviewed, in order
    manager             \* an AbortControllerManager and the threads that call it

vars ==
    << config, files, items, work_queue, active_reviews, dashboard_data,
       agent_performance, pc, work_item,
       quality_standard, fixed_count, passes, log, improvement_plans, swept, scores,
       history, manager >>

\* WorkItem(...) as _handle_file_change constructs it; requirements and timestamp
\* have no effect on the pipeline and are left out
WorkItem(id, file_path, agent_name, content) ==
    [id |-> id, work_type |-> _determine_work_type(file_path), file_path |-> file_path,
     agent_name |-> agent_name, project_name |-> _extract_project_name(file_path),
     content |-> content, quality_metrics |-> DefaultMetrics, issues |-> << >>,
     status |-> "pending", revision_count |-> 0, max_revisions |-> 3]

NoLog ==
    [first_standard |-> "", first_issues |-> << >>, standard |-> "", held |-> << >>,
     reviews |-> 0, reviewers |-> << >>, raising |-> {},
     fix_calls |-> 0, notices |-> 0, reports |-> 0, raised |-> "", done |-> FALSE,
     before |-> << >>]

\* nothing was put in the queue yet; timed_out is whether the wait of the consumer
\* timed out since the latest pass
NoHistory ==
    [enqueued |-> << >>, dequeued |-> << >>, reviewed |-> << >>, timed_out |-> FALSE,
     error |-> FALSE]

Init ==
    /\ config \in {_load_config(user) : user \in UserConfigs}
    /\ files = [p \in Paths |-> << >>]
    /\ items = << >>
    /\ work_queue = << >>
    /\ active_reviews = {}
    /\ dashboard_data = [total_reviews |-> 0, passed_reviews |-> 0, failed_reviews |-> 0,
                         auto_fixes |-> 0, agent_scores |-> << >>,
                         project_health |-> << >>]
    /\ agent_performance = << >>
    /\ improvement_plans = << >>
    /\ swept = FALSE
    /\ history = NoHistory
    /\ manager = NewManager
    /\ scores = << >>
    /\ pc = "get"
    /\ work_item = 0
    /\ quality_standard = ""
    /\ fixed_count = 0
    /\ passes = 0
    /\ log = NoLog

(***************************************************************************)
(* The producers of the queue.                                             *)
(***************************************************************************)
Queued(id) == \E k \in DOMAIN work_queue : work_queue[k] = id

\* An agent writes content to a watched file and the watcher's callback runs
\* _handle_file_change on it: a new WorkItem is put in the queue.
HandleFileChange(file_path, content) ==
    /\ pc = "get"
    /\ _should_review_file(file_path)
    /\ Len(items) < MaxItems
    /\ Len(work_queue) < MaxQueue
    /\ passes + Len(work_queue) < MaxPasses
    /\ files' = [files EXCEPT ![file_path] = content]
    /\ items' = Append(items, WorkItem(Len(items) + 1, file_path, _detect_agent_from_file(file_path), content))
    /\ work_queue' = Append(work_queue, Len(items) + 1)
    /\ history' = [history EXCEPT !.enqueued = Append(@, Len(items) + 1)]
    /\ swept' = FALSE
    /\ UNCHANGED manager
    /\ UNCHANGED << improvement_plans, scores, config, active_reviews, dashboard_data, agent_performance,
                    pc, work_item, quality_standard, fixed_count, passes, log >>

\* A client of the queue puts a WorkItem that was sent for revision in the queue again
\* (a revised file is a file change: _handle_file_change makes a new WorkItem of it).
Resubmit(id) ==
    /\ pc = "get"
    /\ id \in DOMAIN items
    /\ items[id].status = "needs_revision"
    /\ ~Queued(id)
    /\ Len(work_queue) < MaxQueue
    /\ passes + Len(work_queue) < MaxPasses
    /\ work_queue' = Append(work_queue, id)
    /\ history' = [history EXCEPT !.enqueued = Append(@, id)]
    /\ swept' = FALSE
    /\ UNCHANGED manager
    /\ UNCHANGED << improvement_plans, scores, config, files, items, active_reviews, dashboard_data,
                    agent_performance, pc, work_item, quality_standard, fixed_count,
                    passes, log >>

(***************************************************************************)
(* The consumer task: _process_work_queue and _review_work_item.           *)
(***************************************************************************)
\* what a pass must leave alone or may change, as it was when the pass started
Snapshot(id) ==
    [dashboard_data |-> dashboard_data, agent_performance |-> agent_performance,
     content |-> items[id].content, file |-> files[items[id].file_path],
     revision_count |-> items[id].revision_count, status |-> items[id].status,
     improvement_plans |-> improvement_plans, created |-> Len(items)]

\* a variant of the dequeue that takes the item put in the queue last
GetNewest ==
    /\ pc = "get"
    /\ work_queue # << >>
    /\ passes < MaxPasses
    /\ work_item' = work_queue[Len(work_queue)]
    /\ work_queue' = SubSeq(work_queue, 1, Len(work_queue) - 1)
    /\ active_reviews' = active_reviews \cup {work_queue[Len(work_queue)]}
    /\ quality_standard' = ""
    /\ fixed_count' = 0
    /\ passes' = passes + 1
    /\ log' = [NoLog EXCEPT !.before = Snapshot(work_queue[Len(work_queue)])]
    /\ pc' = "review"
    /\ history' = [history EXCEPT !.dequeued = Append(@, work_queue[Len(work_queue)])]
    /\ swept' = FALSE
    /\ UNCHANGED manager
    /\ UNCHANGED << improvement_plans, scores, config, files, items, dashboard_data, agent_performance >>

\* asyncio.wait_for(self.work_queue.get(), timeout=1.0) raises TimeoutError: the queue
\* was empty for a second; the loop continues and waits again
GetTimesOut ==
    /\ pc = "get"
    /\ work_queue = << >>
    /\ history' = [history EXCEPT !.timed_out = TRUE]
    /\ swept' = FALSE
    /\ UNCHANGED << config, files, items, work_queue, active_reviews, dashboard_data,
                    agent_performance, pc, work_item, quality_standard, fixed_count,
                    passes, log, improvement_plans, scores, manager >>

\* work_item = await asyncio.wait_for(self.work_queue.get(), ...) returns the oldest
\* item; self.active_reviews[work_item.id] = work_item
Get ==
    /\ pc = "get"
    /\ work_queue # << >>
    /\ passes < MaxPasses
    /\ work_item' = Head(work_queue)
    /\ work_queue' = Tail(work_queue)
    /\ active_reviews' = active_reviews \cup {Head(work_queue)}
    /\ quality_standard' = ""
    /\ fixed_count' = 0
    /\ passes' = passes + 1
    /\ log' = [NoLog EXCEPT !.before = Snapshot(Head(work_queue))]
    /\ pc' = "review"
    /\ history' = [history EXCEPT !.dequeued = Append(@, Head(work_queue))]
    /\ swept' = FALSE
    /\ UNCHANGED manager
    /\ UNCHANGED << improvement_plans, scores, config, files, items, dashboard_data, agent_performance >>

\* review_work_item returns: the item takes the issues, total_reviews is counted
ReviewReturns(next_pc) ==
    LET r == review_work_item(items[work_item])
    IN  /\ items' = [items EXCEPT ![work_item].quality_metrics = r.quality_metrics,
                                  ![work_item].issues = r.issues]
        /\ quality_standard' = r.quality_standard
        /\ log' = [log EXCEPT !.reviews = @ + 1,
                              !.reviewers = Reviewers(items[work_item].work_type),
                              !.standard = r.quality_standard,
                              !.first_standard = r.quality_standard,
                              !.first_issues = r.issues,
                              !.held = items[work_item].issues]
        /\ pc' = next_pc

\* review_work_item raises at line 615: two sub-scores are assigned, nothing else
ReviewRaisesAt(step) ==
    /\ items' = [items EXCEPT ![work_item].quality_metrics =
                     MetricsWhenRaised(@, items[work_item].file_path,
                                       items[work_item].content)]
    /\ log' = [log EXCEPT !.reviews = @ + 1, !.raised = step,
                          !.reviewers = Reviewers(items[work_item].work_type)]
    /\ pc' = "except"
    /\ UNCHANGED << quality_standard, dashboard_data >>

Review ==
    /\ pc = "review"
    /\ ReviewReturns("decide")
    /\ dashboard_data' = [dashboard_data EXCEPT !.total_reviews = @ + 1]
    /\ history' = [history EXCEPT !.reviewed = Append(@, work_item)]
    /\ swept' = FALSE
    /\ UNCHANGED manager
    /\ UNCHANGED << improvement_plans, scores, config, files, work_queue, active_reviews, agent_performance,
                    work_item, fixed_count, passes >>

ReviewRaises ==
    /\ pc = "review"
    /\ ReviewRaisesAt("review")
    /\ history' = [history EXCEPT !.reviewed = Append(@, work_item)]
    /\ swept' = FALSE
    /\ UNCHANGED manager
    /\ UNCHANGED << improvement_plans, scores, config, files, work_queue, active_reviews, agent_performance,
                    work_item, fixed_count, passes >>

\* a variant that does not approve acceptable work
ApprovedWithoutAcceptable == {"excellent", "good"}

\* the classifications _review_work_item approves
Approved == {"excellent", "good", "acceptable"}

\* a variant that tries auto-fix on every classification that is not approved
TriesAutoFixUnlessApproved(standard) == standard \notin Approved

\* elif quality_standard == QualityStandard.NEEDS_IMPROVEMENT (line 1122)
TriesAutoFix(standard) == standard = "needs_improvement"

\* a variant that re-runs the reviewer whatever the number of fixes
AfterFixesAlwaysRereview(count) == "rereview"

\* if fixed_count > 0 (line 1126): where the pass goes after _attempt_auto_fixes
AfterFixes(count) == IF count > 0 THEN "rereview" ELSE "revision"

\* the if / elif chain on quality_standard (lines 1110-1144)
Decide ==
    /\ pc = "decide"
    /\ IF quality_standard \in Approved
       THEN /\ items' = [items EXCEPT ![work_item].status = "approved"]
            /\ dashboard_data' = [dashboard_data EXCEPT !.passed_reviews = @ + 1]
            /\ pc' = "store"
            /\ log' = log
       ELSE /\ UNCHANGED << items, dashboard_data >>
            /\ IF TriesAutoFix(quality_standard)
               THEN IF "auto_fix_enabled" \notin DOMAIN config.quality_standards
                    THEN pc' = "except" /\ log' = [log EXCEPT !.raised = "decide"]
                    ELSE /\ pc' = IF config.quality_standards.auto_fix_enabled
                                  THEN "fix" ELSE "revision"
                         /\ log' = log
               ELSE pc' = "revision" /\ log' = log
    /\ swept' = FALSE
    /\ UNCHANGED << history, manager >>
    /\ UNCHANGED << improvement_plans, scores, config, files, work_queue, active_reviews, agent_performance,
                    work_item, quality_standard,
                    fixed_count, passes >>

\* _attempt_auto_fixes; written is whether the write back to the file succeeds,
\* raising the issues whose transformer raises (none does on the contents and the
\* issues of the pipeline: the transformers only split, match and join strings)
AttemptAutoFixes(written, raising) ==
    /\ pc = "fix"
    /\ \A k \in raising : items[work_item].issues[k].auto_fixable
    /\ LET item == items[work_item]
           f    == FixIssues(item.content, item.issues, 1, raising)
       IN  /\ items' = [items EXCEPT ![work_item].content = f.content]
           /\ dashboard_data' = [dashboard_data EXCEPT !.auto_fixes = @ + f.fixed_count]
           /\ files' = IF f.fixed_count > 0 /\ written
                       THEN [files EXCEPT ![item.file_path] = f.content]
                       ELSE files
           /\ fixed_count' = IF written THEN f.fixed_count ELSE 0
           /\ pc' = AfterFixes(fixed_count')
           /\ log' = [log EXCEPT !.fix_calls = @ + f.calls, !.raising = raising]
    /\ swept' = FALSE
    /\ UNCHANGED << history, manager >>
    /\ UNCHANGED << improvement_plans, scores, config, work_queue, active_reviews, agent_performance,
                    work_item, quality_standard, passes >>

\* the second review_work_item (lines 1128-1135) and the branch on its result
Rereview ==
    /\ pc = "rereview"
    /\ LET r  == review_work_item(items[work_item])
           ok == r.quality_standard \in Approved
       IN  /\ items' = [items EXCEPT ![work_item].quality_metrics = r.quality_metrics,
                                     ![work_item].issues = r.issues,
                                     ![work_item].status = IF ok THEN "approved" ELSE @]
           /\ dashboard_data' = [dashboard_data EXCEPT
                                    !.passed_reviews = IF ok THEN @ + 1 ELSE @]
           /\ pc' = IF ok THEN "store" ELSE "revision"
           /\ quality_standard' = r.quality_standard
           /\ log' = [log EXCEPT !.reviews = @ + 1, !.standard = r.quality_standard,
                                 !.reviewers = Reviewers(items[work_item].work_type),
                                 !.held = items[work_item].issues]
    /\ swept' = FALSE
    /\ UNCHANGED << history, manager >>
    /\ UNCHANGED << improvement_plans, scores, config, files, work_queue, active_reviews, agent_performance,
                    work_item, fixed_count, passes >>

RereviewRaises ==
    /\ pc = "rereview"
    /\ ReviewRaisesAt("rereview")
    /\ swept' = FALSE
    /\ UNCHANGED << history, manager >>
    /\ UNCHANGED << improvement_plans, scores, config, files, work_queue, active_reviews, agent_performance,
                    work_item, fixed_count, passes >>

\* a variant of _send_for_revision in which a notice or a report that cannot be
\* delivered raises
SendForRevisionDeliveryRaises(delivered, stored) ==
    /\ pc = "revision"
    /\ items' = [items EXCEPT ![work_item].status = "needs_revision",
                              ![work_item].revision_count = @ + 1]
    /\ dashboard_data' = [dashboard_data EXCEPT !.failed_reviews = @ + 1]
    /\ IF "min_overall_score" \notin DOMAIN config.quality_standards \/ ~delivered \/ ~stored
       THEN /\ pc' = "except"
            /\ log' = [log EXCEPT !.raised = "revision"]
       ELSE LET item     == items'[work_item]
                escalate == item.revision_count >= item.max_revisions
            IN  /\ log' = [log EXCEPT !.notices = @ + 1,
                                      !.reports = @ + (IF escalate THEN 1 ELSE 0)]
                /\ pc' = "store"
    /\ swept' = FALSE
    /\ UNCHANGED << history, manager >>
    /\ UNCHANGED << improvement_plans, scores, config, files, work_queue, active_reviews,
                    agent_performance, work_item, quality_standard, fixed_count, passes >>

\* _send_for_revision; delivered and stored are whether the notice reaches the agent
\* and the report reaches the operator
SendForRevision(delivered, stored) ==
    /\ pc = "revision"
    /\ items' = [items EXCEPT ![work_item].status = "needs_revision",
                              ![work_item].revision_count = @ + 1]
    /\ dashboard_data' = [dashboard_data EXCEPT !.failed_reviews = @ + 1]
    /\ IF "min_overall_score" \notin DOMAIN config.quality_standards
       THEN \* _generate_revision_instructions raises KeyError
            /\ pc' = "except"
            /\ log' = [log EXCEPT !.raised = "revision"]
       ELSE LET item     == items'[work_item]
                escalate == item.revision_count >= item.max_revisions
            IN  /\ log' = [log EXCEPT
                             !.notices = @ + (IF delivered THEN 1 ELSE 0),
                             !.reports = @ + (IF escalate /\ stored THEN 1 ELSE 0)]
                /\ pc' = "store"
    /\ swept' = FALSE
    /\ UNCHANGED << history, manager >>
    /\ UNCHANGED << improvement_plans, scores, config, files, work_queue, active_reviews, agent_performance,
                    work_item, quality_standard, fixed_count, passes >>

\* exact fractions for the running mean: num / den, in lowest terms
RECURSIVE GCD(_, _)
GCD(a, b) == IF b = 0 THEN a ELSE GCD(b, a % b)

Fraction(num, den) ==
    IF num = 0 THEN [num |-> 0, den |-> 1]
    ELSE [num |-> num \div GCD(num, den), den |-> den \div GCD(num, den)]

NewAgentStats ==
    [total_reviews |-> 0, passed_reviews |-> 0, failed_reviews |-> 0,
     avg_quality_score |-> Fraction(0, 1), revision_rate |-> Fraction(0, 1)]

\* a variant of the update that averages the old mean and the new score
UpdatedStatsHalving(stats, item) ==
    LET total  == stats.total_reviews + 1
        passed == stats.passed_reviews + (IF item.status = "approved" THEN 1 ELSE 0)
        failed == stats.failed_reviews + (IF item.status = "approved" THEN 0 ELSE 1)
        avg    == stats.avg_quality_score
    IN  [total_reviews |-> total, passed_reviews |-> passed, failed_reviews |-> failed,
         avg_quality_score |->
             Fraction(avg.num + item.quality_metrics.overall_score * avg.den, avg.den * 2),
         revision_rate |-> Fraction(failed, total)]

\* a variant of the update that counts every outcome as passed
UpdatedStatsAllPassed(stats, item) ==
    LET total == stats.total_reviews + 1
        avg   == stats.avg_quality_score
    IN  [total_reviews |-> total, passed_reviews |-> stats.passed_reviews + 1,
         failed_reviews |-> stats.failed_reviews,
         avg_quality_score |->
             Fraction(avg.num * (total - 1) + item.quality_metrics.overall_score * avg.den,
                      avg.den * total),
         revision_rate |-> Fraction(stats.failed_reviews, total)]

\* the record _update_agent_performance leaves for the agent of item; the mean is in
\* sixtieths: (avg * (total - 1) + overall_score) / total
UpdatedStats(stats, item) ==
    LET total  == stats.total_reviews + 1
        passed == stats.passed_reviews + (IF item.status = "approved" THEN 1 ELSE 0)
        failed == stats.failed_reviews + (IF item.status = "approved" THEN 0 ELSE 1)
        avg    == stats.avg_quality_score
    IN  [total_reviews |-> total, passed_reviews |-> passed, failed_reviews |-> failed,
         avg_quality_score |->
             Fraction(avg.num * (total - 1) + item.quality_metrics.overall_score * avg.den,
                      avg.den * total),
         revision_rate |-> Fraction(failed, total)]

\* a variant of the assignment that drops the other keys
PutAlone(f, k, v) == [x \in {k} |-> v]

\* f with key k set to v, k added to the domain when it is new
Put(f, k, v) == [x \in DOMAIN f \cup {k} |-> IF x = k THEN v ELSE f[x]]

\* _store_review_results (every failure in it is caught) and _update_agent_performance
StoreAndUpdate ==
    /\ pc = "store"
    /\ LET item  == items[work_item]
           old   == IF item.agent_name \in DOMAIN agent_performance
                    THEN agent_performance[item.agent_name] ELSE NewAgentStats
           stats == UpdatedStats(old, item)
       IN  /\ agent_performance' = Put(agent_performance, item.agent_name, stats)
           /\ scores' = Put(scores, item.agent_name,
                             Append(IF item.agent_name \in DOMAIN scores
                                    THEN scores[item.agent_name] ELSE << >>,
                                    item.quality_metrics.overall_score))
           /\ dashboard_data' =
                  [dashboard_data EXCEPT
                     !.agent_scores = Put(@, item.agent_name, stats.avg_quality_score)]
    /\ pc' = "finally"
    /\ swept' = FALSE
    /\ UNCHANGED << history, manager >>
    /\ UNCHANGED << improvement_plans, config, files, items, work_queue, active_reviews, work_item, quality_standard, fixed_count, passes, log >>

\* a variant of the except clause that leaves the status as it is
ExceptKeepsStatus ==
    /\ pc = "except"
    /\ pc' = "finally"
    /\ swept' = FALSE
    /\ history' = [history EXCEPT !.error = TRUE]
    /\ UNCHANGED manager
    /\ UNCHANGED << improvement_plans, scores, config, files, items, work_queue, active_reviews, dashboard_data,
                    agent_performance, work_item, quality_standard, fixed_count,
                    passes, log >>

\* except Exception: work_item.status = "error"
Except ==
    /\ pc = "except"
    /\ items' = [items EXCEPT ![work_item].status = "error"]
    /\ pc' = "finally"
    /\ swept' = FALSE
    /\ history' = [history EXCEPT !.error = TRUE]
    /\ UNCHANGED manager
    /\ UNCHANGED << improvement_plans, scores, config, files, work_queue, active_reviews, dashboard_data,
                    agent_performance, work_item,
                    quality_standard, fixed_count, passes, log >>

\* a variant of the finally clause that leaves the item in active_reviews
FinallyKeepsActive ==
    /\ pc = "finally"
    /\ pc' = "get"
    /\ log' = [log EXCEPT !.done = TRUE]
    /\ history' = [history EXCEPT !.timed_out = FALSE]
    /\ swept' = FALSE
    /\ UNCHANGED manager
    /\ UNCHANGED << improvement_plans, scores, config, files, items, work_queue,
                    active_reviews, dashboard_data, agent_performance, work_item,
                    quality_standard, fixed_count, passes >>

\* finally: del self.active_reviews[work_item.id]; the loop returns to work_queue.get()
Finally ==
    /\ pc = "finally"
    /\ active_reviews' = active_reviews \ {work_item}
    /\ pc' = "get"
    /\ log' = [log EXCEPT !.done = TRUE]
    /\ history' = [history EXCEPT !.timed_out = FALSE]
    /\ swept' = FALSE
    /\ UNCHANGED manager
    /\ UNCHANGED << improvement_plans, scores, config, files, items, work_queue, dashboard_data,
                    agent_performance, work_item,
                    quality_standard, fixed_count, passes >>

(***************************************************************************)
(* The monitor task: one iteration of _monitor_agent_performance.  It has  *)
(* no suspension point before its sleep, and a review pass has none        *)
(* either: an iteration runs while the consumer waits in work_queue.get(). *)
(***************************************************************************)
\* stats["total_reviews"] >= 5 and (avg_quality_score < 0.6 or revision_rate > 0.5);
\* the mean is a fraction of sixtieths
Underperforming(stats) ==
    /\ ~(stats.total_reviews < 5)
    /\ \/ stats.avg_quality_score.num < Tenths(6) * stats.avg_quality_score.den
       \/ 2 * stats.revision_rate.num > stats.revision_rate.den

\* the orders in which a dict with the keys of S can be iterated
Orders(S) ==
    { order \in [1..Cardinality(S) -> S] :
          \A i, j \in 1..Cardinality(S) : order[i] = order[j] => i = j }

\* _check_underperforming_agents: the agents _handle_underperforming_agent notifies, in
\* the order of the dict.  A plan that cannot be stored raises after its notice was
\* sent; the except clause of line 1467 ends the loop there.
RECURSIVE _check_underperforming_agents(_, _)
_check_underperforming_agents(order, stored) ==
    IF order = << >> THEN << >>
    ELSE IF ~Underperforming(agent_performance[Head(order)])
    THEN _check_underperforming_agents(Tail(order), stored)
    ELSE IF ~stored THEN << Head(order) >>
    ELSE << Head(order) >> \o _check_underperforming_agents(Tail(order), stored)

\* health_status of _update_project_health; avg_quality is a fraction of sixtieths
health_status(avg_quality) ==
    IF avg_quality.num > Tenths(9) * avg_quality.den THEN "excellent"
    ELSE IF avg_quality.num > Tenths(8) * avg_quality.den THEN "good"
    ELSE IF avg_quality.num > Tenths(7) * avg_quality.den THEN "fair"
    ELSE "poor"

RECURSIVE SumOverallScore(_)
SumOverallScore(ids) ==
    IF ids = {} THEN 0
    ELSE LET id == CHOOSE x \in ids : TRUE
         IN  items[id].quality_metrics.overall_score + SumOverallScore(ids \ {id})

\* the entry _update_project_health writes for the items ids of one project
ProjectHealth(ids) ==
    LET avg_quality == Fraction(SumOverallScore(ids), Cardinality(ids))
    IN  [health_score |-> avg_quality, status |-> health_status(avg_quality),
         total_reviews |-> Cardinality(ids)]

\* _update_project_health: an entry for every project of an item in active_reviews
_update_project_health(project_health) ==
    LET projects == { items[id].project_name : id \in active_reviews }
    IN  [p \in DOMAIN project_health \cup projects |->
            IF p \in projects
            THEN ProjectHealth({ id \in active_reviews : items[id].project_name = p })
            ELSE project_health[p]]

\* report, _check_underperforming_agents, _update_project_health, then sleep
MonitorAgentPerformance(order, stored) ==
    /\ pc = "get"
    /\ order \in Orders(DOMAIN agent_performance)
    /\ improvement_plans' = _check_underperforming_agents(order, stored)
    /\ swept' = TRUE
    /\ UNCHANGED << history, manager >>
    /\ dashboard_data' =
           [dashboard_data EXCEPT !.project_health = _update_project_health(@)]
    /\ UNCHANGED << config, files, items, work_queue, active_reviews, agent_performance,
                    pc, work_item, quality_standard, fixed_count, passes, log, scores >>

Next ==
    \/ \E file_path \in Paths :
           \E content \in InputContents(file_path) \cup ({files[file_path]} \ {<< >>}) :
               HandleFileChange(file_path, content)
    \/ \E id \in DOMAIN items : Resubmit(id)
    \/ Get
    \/ GetTimesOut
    \/ Review
    \/ ReviewRaises
    \/ Decide
    \/ \E written \in BOOLEAN : AttemptAutoFixes(written, {})
    \/ Rereview
    \/ RereviewRaises
    \/ \E delivered \in BOOLEAN, stored \in BOOLEAN : SendForRevision(delivered, stored)
    \/ StoreAndUpdate
    \/ Except
    \/ Finally
    \/ \E order \in Orders(DOMAIN agent_performance), stored \in BOOLEAN :
           MonitorAgentPerformance(order, stored)

Spec == Init /\ [][Next]_vars

(***************************************************************************)
(* Properties of the review pass.                                          *)
(***************************************************************************)
\* the pass of work_item has returned to the consumer loop
PassEnded == log.done

\* the pass ran _send_for_revision to its end
Revised ==
    /\ log.raised = ""
    /\ items[work_item].revision_count > log.before.revision_count

ScenarioMetrics ==
    calculate_overall_score(
        [DefaultMetrics EXCEPT !.code_quality = 10, !.test_coverage = 10,
                               !.documentation_completeness = 10, !.security_score = 10,
                               !.performance_score = 10])

\* C5: a pass whose first classification is excellent, good or acceptable ends with
\* status approved, passed_reviews one higher and revision_count as it was; and
\* sub-scores [1, 1, 1, 1, 1, 0] without a critical issue are classified good.
C5_ApprovedOnFirstReview ==
    /\ (PassEnded /\ log.first_standard \in {"excellent", "good", "acceptable"})
           => /\ items[work_item].status = "approved"
              /\ dashboard_data.passed_reviews = log.before.dashboard_data.passed_reviews + 1
              /\ items[work_item].revision_count = log.before.revision_count
    /\ _determine_quality_standard(ScenarioMetrics.overall_score, << >>) = "good"

C5_Witness ==
    /\ PassEnded
    /\ log.first_standard = "good"
    /\ items[work_item].status = "approved"
    /\ dashboard_data.passed_reviews = log.before.dashboard_data.passed_reviews + 1

\* the positions of an issue list that hold an auto-fixable issue
AutoFixable(issues) == {k \in DOMAIN issues : issues[k].auto_fixable}

\* the pass took the branch that tries auto-fix
AutoFixBranch ==
    /\ log.first_standard = "needs_improvement"
    /\ "auto_fix_enabled" \in DOMAIN config.quality_standards
    /\ config.quality_standards.auto_fix_enabled

C7_UnacceptableIsNeverFixed ==
    /\ (log.first_standard = "unacceptable" /\ pc # "get")
           => /\ log.fix_calls = 0
              /\ items[work_item].content = log.before.content
              /\ files[items[work_item].file_path] = log.before.file
              /\ dashboard_data.auto_fixes = log.before.dashboard_data.auto_fixes
              /\ pc \notin {"fix", "rereview"}
    /\ (PassEnded /\ log.first_standard = "unacceptable" /\ log.raised = "")
           => /\ log.reviews = 1
              /\ items[work_item].content = log.before.content
              /\ items[work_item].revision_count = log.before.revision_count + 1
    /\ (log.fix_calls > 0 \/ pc = "fix") => log.first_standard = "needs_improvement"

C7_Witness ==
    /\ PassEnded
    /\ log.first_standard = "unacceptable"
    /\ log.raised = ""
    /\ AutoFixable(items[work_item].issues) # {}
    /\ items[work_item].status = "needs_revision"

\* C8: a pass in which a step raised ends with status error and the item out of
\* active_reviews, and the consumer is back at work_queue.get().
C8_ErrorEndsThePass ==
    /\ (PassEnded /\ log.raised # "")
           => /\ items[work_item].status = "error"
              /\ work_item \notin active_reviews
              /\ pc = "get"
    /\ (pc = "finally" /\ log.raised # "") => items[work_item].status = "error"

\* a pass ended in error and a later pass of another item ended approved
C8_Witness ==
    /\ PassEnded
    /\ log.raised = ""
    /\ items[work_item].status = "approved"
    /\ \E id \in DOMAIN items : id < work_item /\ items[id].status = "error"

ProbeMetrics ==
    { [DefaultMetrics EXCEPT !.code_quality = a, !.test_coverage = b,
                             !.documentation_completeness = c, !.security_score = d,
                             !.performance_score = x, !.architecture_compliance = y] :
          a \in {0, 10}, b \in {0, 10}, c \in {0, 10}, d \in {0, 10},
          x \in 0..10, y \in 0..10 }

\* the issue lists tried: none, one that is not critical, one that is
ProbeIssues ==
    { << >>,
      << Issue("missing_logging", "medium", "Code lacks proper logging", TRUE) >>,
      << Issue("missing_logging", "medium", "Code lacks proper logging", TRUE),
         Issue("dangerous_eval", "critical", SecurityDescription("dangerous_eval"), FALSE) >> }

InitClassify ==
    /\ config = _load_config(<< >>)
    /\ files = [p \in Paths |-> << >>]
    /\ \E m \in ProbeMetrics, issues \in ProbeIssues :
           items = << [WorkItem(1, "/w/projects/p1/app.py", "agent-a", << Line(0, "") >>)
                          EXCEPT !.quality_metrics = m, !.issues = issues] >>
    /\ work_queue = << >>
    /\ active_reviews = {}
    /\ dashboard_data = [total_reviews |-> 0, passed_reviews |-> 0, failed_reviews |-> 0,
                         auto_fixes |-> 0, agent_scores |-> << >>,
                         project_health |-> << >>]
    /\ agent_performance = << >>
    /\ improvement_plans = << >>
    /\ swept = FALSE
    /\ history = NoHistory
    /\ manager = NewManager
    /\ scores = << >>
    /\ pc = "calculate_overall_score"
    /\ work_item = 1
    /\ quality_standard = ""
    /\ fixed_count = 0
    /\ passes = 0
    /\ log = NoLog

\* work_item.quality_metrics.calculate_overall_score()
CalculateOverallScore ==
    /\ pc = "calculate_overall_score"
    /\ items' = [items EXCEPT ![work_item].quality_metrics = calculate_overall_score(@)]
    /\ pc' = "_determine_quality_standard"
    /\ swept' = FALSE
    /\ UNCHANGED << history, manager >>
    /\ UNCHANGED << improvement_plans, scores, config, files, work_queue, active_reviews, dashboard_data,
                    agent_performance, work_item, quality_standard, fixed_count,
                    passes, log >>

\* quality_standard = self._determine_quality_standard(work_item)
DetermineQualityStandard ==
    /\ pc = "_determine_quality_standard"
    /\ quality_standard' =
           _determine_quality_standard(items[work_item].quality_metrics.overall_score,
                                       items[work_item].issues)
    /\ pc' = "return"
    /\ swept' = FALSE
    /\ UNCHANGED << history, manager >>
    /\ UNCHANGED << improvement_plans, scores, config, files, items, work_queue, active_reviews, dashboard_data,
                    agent_performance, work_item, fixed_count, passes, log >>

NextClassify == CalculateOverallScore \/ DetermineQualityStandard

SpecClassify == InitClassify /\ [][NextClassify]_vars

\* C10: without a critical issue the classification is decided by the overall score
\* alone (in sixtieths here), the lower boundary of each class included:
\* >= 0.9 excellent, >= 0.8 good, >= 0.7 acceptable, >= 0.6 needs_improvement,
\* unacceptable below.
C10_ClassifiedByTheLadder ==
    (pc = "return" /\ ~HasCritical(items[work_item].issues))
        => LET score == items[work_item].quality_metrics.overall_score
           IN  quality_standard =
                   (IF 10 * score >= 9 * 60 THEN "excellent"
                    ELSE IF 10 * score >= 8 * 60 THEN "good"
                    ELSE IF 10 * score >= 7 * 60 THEN "acceptable"
                    ELSE IF 10 * score >= 6 * 60 THEN "needs_improvement"
                    ELSE "unacceptable")

\* an overall score of exactly 0.6, reached without a critical issue
C10_Witness ==
    /\ pc = "return"
    /\ items[work_item].issues # << >>
    /\ ~HasCritical(items[work_item].issues)
    /\ 10 * items[work_item].quality_metrics.overall_score = 6 * 60
    /\ quality_standard = "needs_improvement"

(***************************************************************************)
(* Metrics and records.                                                    *)
(***************************************************************************)
\* the sum of the six sub-scores of m, in tenths
SubScoreSum(m) ==
    m.code_quality + m.test_coverage + m.documentation_completeness
        + m.security_score + m.performance_score + m.architecture_compliance

\* C11: after a review pass has ended, the overall score of its item is the mean of
\* the six sub-scores (in sixtieths: their sum in tenths), each sub-score lies in
\* [0, 1] and so does the overall score; the overall score is not stale.
C11_OverallIsTheMean ==
    PassEnded
        => LET m == items[work_item].quality_metrics
           IN  /\ m.overall_score = SubScoreSum(m)
               /\ \A f \in DOMAIN m \ {"overall_score"} : m[f] \in 0..10
               /\ m.overall_score \in 0..60

RECURSIVE SeqSum(_)
SeqSum(s) == IF s = << >> THEN 0 ELSE Head(s) + SeqSum(Tail(s))

\* the record of an agent after its record was updated with the overall scores of s,
\* in that order, each pass ending with the given status
RECURSIVE StatsAfter(_, _)
StatsAfter(s, status) ==
    IF s = << >> THEN NewAgentStats
    ELSE UpdatedStats(StatsAfter(SubSeq(s, 1, Len(s) - 1), status),
                      [status |-> status,
                       quality_metrics |-> [overall_score |-> s[Len(s)]]])

\* C12: the running mean of an agent whose record was updated by n >= 1 passes, in
\* arrival order, with overall scores s1..sn is (s1 + ... + sn) / n; the scores 0.9,
\* 0.5, 0.7 (54, 30, 42 sixtieths) give 0.7.
C12_RunningMeanIsTheMean ==
    /\ \A a \in DOMAIN agent_performance :
           LET stats == agent_performance[a]
               n     == Len(scores[a])
           IN  /\ n >= 1
               /\ stats.total_reviews = n
               /\ stats.avg_quality_score = Fraction(SeqSum(scores[a]), n)
               /\ dashboard_data.agent_scores[a] = stats.avg_quality_score
    /\ StatsAfter(<< 54, 30, 42 >>, "approved").avg_quality_score = Fraction(42, 1)

\* an agent whose record was updated three times, with scores that differ
C12_Witness ==
    \E a \in DOMAIN agent_performance :
        /\ Len(scores[a]) = 3
        /\ scores[a][1] # scores[a][2]
        /\ scores[a][2] # scores[a][3]

\* the record of the agent of the item under review as the pass found it
RecordBefore ==
    LET a == items[work_item].agent_name
    IN  IF a \in DOMAIN log.before.agent_performance
        THEN log.before.agent_performance[a] ELSE NewAgentStats

\* C13: every agent record has total_reviews = passed_reviews + failed_reviews and
\* revision_rate = failed_reviews / total_reviews; a pass that ends approved adds one
\* to passed_reviews of the item's agent, a pass that ends needs_revision or
\* escalated adds one to failed_reviews, and nothing to the other counter.
C13_RecordsAddUp ==
    /\ \A a \in DOMAIN agent_performance :
           LET stats == agent_performance[a]
           IN  /\ stats.total_reviews = stats.passed_reviews + stats.failed_reviews
               /\ stats.total_reviews >= 1
               /\ stats.revision_rate = Fraction(stats.failed_reviews, stats.total_reviews)
    /\ (PassEnded /\ items[work_item].status = "approved")
           => LET stats == agent_performance[items[work_item].agent_name]
              IN  /\ stats.passed_reviews = RecordBefore.passed_reviews + 1
                  /\ stats.failed_reviews = RecordBefore.failed_reviews
    /\ (PassEnded /\ items[work_item].status \in {"needs_revision", "escalated"})
           => LET stats == agent_performance[items[work_item].agent_name]
              IN  /\ stats.failed_reviews = RecordBefore.failed_reviews + 1
                  /\ stats.passed_reviews = RecordBefore.passed_reviews

\* an agent with passes of both outcomes, the latest one sent for revision
C13_Witness ==
    /\ PassEnded
    /\ items[work_item].status = "needs_revision"
    /\ LET stats == agent_performance[items[work_item].agent_name]
       IN  /\ stats.passed_reviews >= 1
           /\ stats.failed_reviews >= 2

SentForRevision ==
    /\ items[work_item].revision_count > log.before.revision_count
    /\ "min_overall_score" \in DOMAIN config.quality_standards

\* C17: a pass whose revision notice or escalation report could not be delivered
\* ends like the same pass with the delivery made: not in error, with status
\* needs_revision, revision_count one higher, and the counters of the dashboard as
\* the decisions of the pass set them, whatever was delivered.
C17_DeliveryFailureChangesNothing ==
    (PassEnded /\ SentForRevision)
        => /\ log.raised = ""
           /\ items[work_item].status = "needs_revision"
           /\ items[work_item].revision_count = log.before.revision_count + 1
           /\ dashboard_data.total_reviews = log.before.dashboard_data.total_reviews + 1
           /\ dashboard_data.passed_reviews = log.before.dashboard_data.passed_reviews
           /\ dashboard_data.failed_reviews = log.before.dashboard_data.failed_reviews + 1
           /\ agent_performance[items[work_item].agent_name].failed_reviews
                  = RecordBefore.failed_reviews + 1

\* the pass that reached the limit delivered neither its notice nor its report
C17_Witness ==
    /\ PassEnded
    /\ SentForRevision
    /\ items[work_item].revision_count >= items[work_item].max_revisions
    /\ log.notices = 0
    /\ log.reports = 0
    /\ items[work_item].status = "needs_revision"

\* C18: at most one work item is in active_reviews: the consumer holds none while it
\* waits in work_queue.get() and exactly the item of the pass until the pass has
\* ended, whatever max_concurrent_reviews is and whatever waits in the queue.
C18_OneReviewAtATime ==
    /\ Cardinality(active_reviews) <= 1
    /\ pc = "get" => active_reviews = {}
    /\ pc # "get" => active_reviews = {work_item}

\* a pass under way while another item waits and ten concurrent reviews are allowed
C18_Witness ==
    /\ pc = "decide"
    /\ active_reviews = {work_item}
    /\ work_queue # << >>
    /\ config.agents.max_concurrent_reviews = 10

\* the items that have not been through a pass: created, waiting or under review
NotYetTerminal == { id \in DOMAIN items : items[id].status = "pending" }

\* C19: after a sweep, every project with an item that is not yet in a terminal state
\* has a health entry whose score is the mean overall score of exactly those items
\* and whose count is their number, in the bucket excellent above 0.9, good above
\* 0.8, fair above 0.7 and poor otherwise, so that a mean of exactly 0.9 is good.
C19_HealthOfTheActiveItems ==
    /\ swept
           => \A p \in { items[id].project_name : id \in NotYetTerminal } :
                  /\ p \in DOMAIN dashboard_data.project_health
                  /\ dashboard_data.project_health[p]
                         = ProjectHealth({ id \in NotYetTerminal : items[id].project_name = p })
    /\ health_status(Fraction(Tenths(9), 1)) = "good"

(***************************************************************************)
(* The agent after earlier reviews: the records of the agents are those    *)
(* that passes of earlier work items left (the work items themselves are   *)
(* gone), and the pipeline and the monitor go on from there.               *)
(***************************************************************************)
\* the scores of `passed` approved passes of good work (0.833, 50 sixtieths) followed
\* by `failed` passes of unacceptable work (0.583, 35 sixtieths)
EarlierScores(passed, failed) == [k \in 1..(passed + failed) |-> IF k <= passed THEN 50 ELSE 35]

\* the record _update_agent_performance leaves after those passes
RECURSIVE EarlierStats(_, _)
EarlierStats(passed, failed) ==
    IF passed + failed = 0 THEN NewAgentStats
    ELSE IF failed > 0
    THEN UpdatedStats(EarlierStats(passed, failed - 1),
                      [status |-> "needs_revision", quality_metrics |-> [overall_score |-> 35]])
    ELSE UpdatedStats(EarlierStats(passed - 1, 0),
                      [status |-> "approved", quality_metrics |-> [overall_score |-> 50]])

\* the earlier passes tried, as << agent, passed, failed >>: agent-a with 4 or 6
\* reviews, alone or next to an agent with 6 reviews of which 4 failed
EarlierPasses ==
    { {<< "agent-a", a[1], a[2] >>} \cup u :
          a \in { << 2, 4 >>, << 1, 3 >>, << 3, 3 >>, << 2, 2 >> }, u \in { {} } }
        \cup { {<< "agent-a", 2, 4 >>, << "unknown_agent", 2, 4 >>} }

InitSeasoned ==
    /\ config = _load_config(<< >>)
    /\ files = [p \in Paths |-> << >>]
    /\ items = << >>
    /\ work_queue = << >>
    /\ active_reviews = {}
    /\ \E earlier \in EarlierPasses :
           LET agents   == { e[1] : e \in earlier }
               of(a)    == CHOOSE e \in earlier : e[1] = a
               Count(k) == LET n[S \in SUBSET earlier] ==
                                   IF S = {} THEN 0
                                   ELSE LET e == CHOOSE x \in S : TRUE
                                        IN  e[k] + n[S \ {e}]
                           IN  n[earlier]
           IN  /\ agent_performance = [a \in agents |-> EarlierStats(of(a)[2], of(a)[3])]
               /\ scores = [a \in agents |-> EarlierScores(of(a)[2], of(a)[3])]
               /\ dashboard_data =
                      [total_reviews |-> Count(2) + Count(3), passed_reviews |-> Count(2),
                       failed_reviews |-> Count(3), auto_fixes |-> 0,
                       agent_scores |->
                           [a \in agents |-> EarlierStats(of(a)[2], of(a)[3]).avg_quality_score],
                       project_health |-> << >>]
    /\ improvement_plans = << >>
    /\ swept = FALSE
    /\ history = NoHistory
    /\ manager = NewManager
    /\ pc = "get"
    /\ work_item = 0
    /\ quality_standard = ""
    /\ fixed_count = 0
    /\ passes = 0
    /\ log = NoLog

SpecSeasoned == InitSeasoned /\ [][Next]_vars

\* the agents of the records that are underperforming
UnderperformingAgents ==
    { a \in DOMAIN agent_performance : Underperforming(agent_performance[a]) }

ProbeContents ==
    UNION { InputContents(file_path) : file_path \in Paths }
        \cup { << Line(0, "import os"), Line(0, "def test_a():"), Line(4, "assert True") >>,
               << Line(0, "x = 1") >> }

\* the auto-fixable issues the reviewers emit, one for each description
ProbeFixableIssues ==
    { Issue("missing_error_handling", "high", "Code lacks proper error handling", TRUE),
      Issue("missing_logging", "medium", "Code lacks proper logging", TRUE),
      Issue("missing_documentation", "medium", "Code lacks proper documentation", TRUE) }
        \cup { Issue("missing_section", "medium", MissingSectionDescription(section), TRUE) :
                   section \in {"overview", "usage", "examples"} }
        \cup { Issue("missing_test_type", "high", MissingTestsDescription(test_type), TRUE) :
                   test_type \in {"unit", "integration"} }

InitFix ==
    /\ config = _load_config(<< >>)
    /\ files = [p \in Paths |-> << >>]
    /\ \E content \in ProbeContents, issue \in ProbeFixableIssues :
           /\ items = << [WorkItem(1, "/w/projects/p1/app.py", "agent-a", content)
                             EXCEPT !.issues = << issue >>] >>
           /\ log = [NoLog EXCEPT !.before = [content |-> content]]
    /\ work_queue = << >>
    /\ active_reviews = {}
    /\ dashboard_data = [total_reviews |-> 0, passed_reviews |-> 0, failed_reviews |-> 0,
                         auto_fixes |-> 0, agent_scores |-> << >>,
                         project_health |-> << >>]
    /\ agent_performance = << >>
    /\ improvement_plans = << >>
    /\ swept = FALSE
    /\ history = NoHistory
    /\ manager = NewManager
    /\ scores = << >>
    /\ pc = "fix_function"
    /\ work_item = 1
    /\ quality_standard = ""
    /\ fixed_count = 0
    /\ passes = 0

\* fixed_content = await fix_function(work_item.content, issue), kept as the content
FixFunction ==
    /\ pc \in {"fix_function", "fix_function again"}
    /\ items' = [items EXCEPT ![work_item].content =
                     fix_function(@, items[work_item].issues[1])]
    /\ log' = [log EXCEPT !.fix_calls = @ + 1]
    /\ pc' = IF pc = "fix_function" THEN "fix_function again" ELSE "return"
    /\ UNCHANGED << config, files, work_queue, active_reviews, dashboard_data,
                    agent_performance, work_item, quality_standard, fixed_count, passes,
                    improvement_plans, swept, scores, history, manager >>

NextFix == FixFunction

SpecFix == InitFix /\ [][NextFix]_vars

\* C16: every transformer is idempotent: applied to a content and then to its own
\* result, with the same issue, it returns what the first application returned.
C16_TransformersAreIdempotent ==
    pc = "return"
        => items[work_item].content
               = fix_function(log.before.content, items[work_item].issues[1])

(***************************************************************************)
(* The first review of a pass on its own: review_work_item applied to a    *)
(* new work item of any watched path and any of the contents.              *)
(***************************************************************************)
\* the contents tried for a review: those of the transformers and a document that
\* quotes a call of eval
ProbeReviewContents ==
    ProbeContents \cup { << Line(0, "## Overview"), Line(0, "eval(x)") >> }

InitReview ==
    /\ config = _load_config(<< >>)
    /\ \E file_path \in Paths, content \in ProbeReviewContents :
           /\ files = [p \in Paths |-> IF p = file_path THEN content ELSE << >>]
           /\ items = << WorkItem(1, file_path, _detect_agent_from_file(file_path), content) >>
    /\ work_queue = << >>
    /\ active_reviews = {1}
    /\ dashboard_data = [total_reviews |-> 0, passed_reviews |-> 0, failed_reviews |-> 0,
                         auto_fixes |-> 0, agent_scores |-> << >>,
                         project_health |-> << >>]
    /\ agent_performance = << >>
    /\ improvement_plans = << >>
    /\ swept = FALSE
    /\ history = NoHistory
    /\ manager = NewManager
    /\ scores = << >>
    /\ pc = "review"
    /\ work_item = 1
    /\ quality_standard = ""
    /\ fixed_count = 0
    /\ passes = 1
    /\ log = NoLog

NextReview == Review \/ ReviewRaises

SpecReview == InitReview /\ [][NextReview]_vars

InitDispatch ==
    /\ config = _load_config(<< >>)
    /\ \E file_path \in Paths, content \in ProbeReviewContents, work_type \in WorkTypes :
           /\ files = [p \in Paths |-> IF p = file_path THEN content ELSE << >>]
           /\ items = << [WorkItem(1, file_path, _detect_agent_from_file(file_path), content)
                             EXCEPT !.work_type = work_type] >>
    /\ work_queue = << >>
    /\ active_reviews = {1}
    /\ dashboard_data = [total_reviews |-> 0, passed_reviews |-> 0, failed_reviews |-> 0,
                         auto_fixes |-> 0, agent_scores |-> << >>,
                         project_health |-> << >>]
    /\ agent_performance = << >>
    /\ improvement_plans = << >>
    /\ swept = FALSE
    /\ history = NoHistory
    /\ manager = NewManager
    /\ scores = << >>
    /\ pc = "review"
    /\ work_item = 1
    /\ quality_standard = ""
    /\ fixed_count = 0
    /\ passes = 1
    /\ log = NoLog

SpecDispatch == InitDispatch /\ [][NextReview]_vars

\* C22: for a work item of any work type of the enumeration, a call of
\* review_work_item runs exactly one reviewer: never none, never more than one.
C22_ExactlyOneReviewer ==
    pc \in {"decide", "except"} => Len(log.reviewers) = 1
(***************************************************************************)
(* Errors, reviewers and fixes.                                            *)
(***************************************************************************)
\* C21: a pass that ends in error is counted neither in passed_reviews nor in
\* failed_reviews, and it leaves the dashboard different from what it was before the
\* pass, so that the items in error can be told from the items sent for revision.
C21_ErrorIsVisibleInTheDashboard ==
    (PassEnded /\ items[work_item].status = "error")
        => /\ dashboard_data.passed_reviews = log.before.dashboard_data.passed_reviews
           /\ dashboard_data.failed_reviews = log.before.dashboard_data.failed_reviews
           /\ dashboard_data # log.before.dashboard_data


\* C23: every issue a reviewer emits with auto_fixable true has its issue_type in the
\* registry of the Auto-Fix Engine (fix_patterns), so that auto_fix_issue never
\* returns for lack of a transformer: this holds of the issues a review returns and
\* of each auto-fixable issue the reviewers can construct.
C23_FixableIssuesHaveATransformer ==
    /\ pc = "decide"
           => \A k \in DOMAIN items[work_item].issues :
                  items[work_item].issues[k].auto_fixable
                      => items[work_item].issues[k].issue_type \in fix_patterns
    /\ \A issue \in ProbeFixableIssues : issue.issue_type \in fix_patterns

\* a review of a test file that returned an auto-fixable issue for each test type
C23_Witness ==
    /\ pc = "decide"
    /\ items[work_item].work_type = "tests"
    /\ \E k \in DOMAIN items[work_item].issues :
           /\ items[work_item].issues[k].auto_fixable
           /\ items[work_item].issues[k].issue_type = "missing_test_type"
    /\ Len(items[work_item].issues) >= 2
    /\ \A k \in DOMAIN items[work_item].issues : items[work_item].issues[k].auto_fixable

C28_OnlyTheAgentOfTheItem ==
    [][ /\ \A a \in DOMAIN agent_performance :
               /\ a \in DOMAIN agent_performance'
               /\ agent_performance'[a].total_reviews >= agent_performance[a].total_reviews
        /\ \A a \in DOMAIN agent_performance' :
               (a \notin DOMAIN agent_performance \/ agent_performance'[a] # agent_performance[a])
                   => /\ pc = "store"
                      /\ log.raised = ""
                      /\ a = items[work_item].agent_name
                      /\ agent_performance'[a].total_reviews
                             = (IF a \in DOMAIN agent_performance
                                THEN agent_performance[a].total_reviews ELSE 0) + 1
      ]_vars

\* the second agent got its record while the record of the first, which has two
\* reviews, stayed as it was
C28_Witness ==
    /\ pc = "finally"
    /\ log.raised = ""
    /\ items[work_item].agent_name \notin DOMAIN log.before.agent_performance
    /\ \E a \in DOMAIN log.before.agent_performance :
           /\ a # items[work_item].agent_name
           /\ agent_performance[a] = log.before.agent_performance[a]
           /\ agent_performance[a].total_reviews = 2

\* the sum of one counter over the records of all agents
SumOverAgents(field) ==
    LET n[S \in SUBSET DOMAIN agent_performance] ==
            IF S = {} THEN 0
            ELSE LET a == CHOOSE x \in S : TRUE
                 IN  agent_performance[a][field] + n[S \ {a}]
    IN  n[DOMAIN agent_performance]

ProbeIssuesToFix ==
    ProbeFixableIssues
        \cup { Issue("high_complexity", "medium", "Code complexity too high", FALSE),
               Issue("poor_readability", "low", "Documentation readability is poor", TRUE) }

InitAutoFix ==
    /\ config = _load_config(<< >>)
    /\ \E content \in ProbeContents, first \in ProbeIssuesToFix, second \in ProbeIssuesToFix :
           /\ files = [p \in Paths |-> IF p = "/w/projects/p1/app.py" THEN content ELSE << >>]
           /\ items = << [WorkItem(1, "/w/projects/p1/app.py", "agent-a", content)
                             EXCEPT !.issues = << first, second >>] >>
    /\ work_queue = << >>
    /\ active_reviews = {1}
    /\ dashboard_data = [total_reviews |-> 1, passed_reviews |-> 0, failed_reviews |-> 0,
                         auto_fixes |-> 0, agent_scores |-> << >>,
                         project_health |-> << >>]
    /\ agent_performance = << >>
    /\ improvement_plans = << >>
    /\ swept = FALSE
    /\ history = NoHistory
    /\ manager = NewManager
    /\ scores = << >>
    /\ pc = "fix"
    /\ work_item = 1
    /\ quality_standard = "needs_improvement"
    /\ fixed_count = 0
    /\ passes = 1
    /\ log = [NoLog EXCEPT !.before = Snapshot(1)]

NextAutoFix ==
    \E written \in BOOLEAN, raising \in SUBSET {1, 2} : AttemptAutoFixes(written, raising)

SpecAutoFix == InitAutoFix /\ [][NextAutoFix]_vars

\* issue k of the item is one auto_fix_issue returns False for without looking at
\* the content: not auto-fixable, without a transformer, or its transformer raised
Unfixed(k) ==
    LET issue == items[work_item].issues[k]
    IN  \/ ~issue.auto_fixable
        \/ issue.issue_type \notin fix_patterns
        \/ k \in log.raising

\* C24: when the transformer of an issue raises, or the issue is not auto-fixable or
\* has no transformer, the call changes nothing and counts nothing, and the loop goes
\* on: the content and the auto_fixes counter after _attempt_auto_fixes are those of
\* the loop run on the other issues alone, from the original content; when that holds
\* of every issue the content, the file and the counter are as they were.
C24_FailedFixChangesNothing ==
    pc \in {"rereview", "revision"}
        => LET issues == items[work_item].issues
               others == IF Unfixed(1)
                         THEN (IF Unfixed(2) THEN << >> ELSE << issues[2] >>)
                         ELSE (IF Unfixed(2) THEN << issues[1] >> ELSE issues)
               alone  == FixIssues(log.before.content, others, 1, {})
           IN  /\ items[work_item].content = alone.content
               /\ dashboard_data.auto_fixes
                      = log.before.dashboard_data.auto_fixes + alone.fixed_count
               /\ (Unfixed(1) /\ Unfixed(2))
                      => /\ items[work_item].content = log.before.content
                         /\ files[items[work_item].file_path] = log.before.file
                         /\ dashboard_data.auto_fixes = log.before.dashboard_data.auto_fixes
                         /\ fixed_count = 0
                         /\ pc = "revision"

\* the transformer of the first issue raised and the second issue was fixed
C24_Witness ==
    /\ pc = "rereview"
    /\ log.raising = {1}
    /\ items[work_item].issues[1].issue_type \in fix_patterns
    /\ items[work_item].issues[1] # items[work_item].issues[2]
    /\ items[work_item].content # log.before.content
    /\ fixed_count = 1

(***************************************************************************)
(* The consumer task under the scheduling of the event loop: a task that   *)
(* can run is run; no step of a pass waits for anything but the loop.      *)
(***************************************************************************)
\* the steps of _process_work_queue and of the pass it awaits that wait for nothing:
\* all but the timeout of an empty queue and the auto-fix step, which follows
Consumer ==
    \/ Get
    \/ ReviewRaises
    \/ Review
    \/ Decide
    \/ RereviewRaises
    \/ Rereview
    \/ \E delivered \in BOOLEAN, stored \in BOOLEAN : SendForRevision(delivered, stored)
    \/ StoreAndUpdate
    \/ Except
    \/ Finally

\* weak fairness of the auto-fix step, with its enabling condition written out: the
\* step can be taken exactly when pc = "fix"
FixIsFair ==
    \/ []<>(pc # "fix")
    \/ []<><< \E written \in BOOLEAN : AttemptAutoFixes(written, {}) >>_vars

SpecLive == Init /\ [][Next]_vars /\ WF_vars(Consumer) /\ FixIsFair

\* s is the beginning of t
IsPrefix(s, t) == Len(s) <= Len(t) /\ s = SubSeq(t, 1, Len(s))

\* what was put in the queue is taken in the same order, what was taken is reviewed
\* once, and what was not yet taken is what waits in the queue
InQueueOrder ==
    /\ IsPrefix(history.dequeued, history.enqueued)
    /\ work_queue = SubSeq(history.enqueued, Len(history.dequeued) + 1, Len(history.enqueued))
    /\ IsPrefix(history.reviewed, history.dequeued)
    /\ Len(history.reviewed) = Len(history.dequeued) - (IF pc = "review" THEN 1 ELSE 0)

\* C26: the work items are taken from the queue and reviewed in the order in which
\* they were put in it, each once for each time it was put: none is lost when the
\* wait times out, none is skipped, none is reviewed twice; and every item put in the
\* queue is eventually taken and reviewed.
C26_ReviewedOnceInQueueOrder ==
    /\ []InQueueOrder
    /\ \A n \in 1..MaxPasses :
           (Len(history.enqueued) >= n) ~> (Len(history.reviewed) >= n)

\* three items were put in the queue, the last after the wait had timed out, and the
\* third pass is about to end
C26_Witness ==
    /\ pc = "finally"
    /\ history.timed_out
    /\ Len(history.enqueued) = 3
    /\ history.reviewed = history.enqueued
    /\ \E i, j \in 1..3 : i # j /\ history.enqueued[i] = history.enqueued[j]


(***************************************************************************)
(* The calls of AbortControllerManager.  A call is a frame on the stack of *)
(* its thread; a frame at pc "lock" waits at `with self._lock', which a    *)
(* thread enters only when the lock is free: threading.Lock is not         *)
(* reentrant, so the thread that holds it waits like any other.            *)
(***************************************************************************)
\* AbortControllerManager(max_controllers = MaxControllers)
MaxControllers == 2

\* the calls made in a behaviour
MaxCalls == 4

\* count of _cleanup_oldest_controllers
oldest_count == 3

ControllerIds == {"c1", "c2", "c3"}

Listeners == {"l1", "l2"}

\* the frame of a call that has not entered its body yet
Frame(op, controller_id, listener_id) ==
    [op |-> op, controller_id |-> controller_id, listener_id |-> listener_id,
     pc |-> "lock", todo |-> << >>]

Top(t) == manager.stack[t][Len(manager.stack[t])]

Running(t, op) == manager.stack[t] # << >> /\ Top(t).op = op

\* the stack of t without its top frame
Popped(t) == SubSeq(manager.stack[t], 1, Len(manager.stack[t]) - 1)

\* the stack of t with the top frame replaced by frame
WithTop(t, frame) == Append(Popped(t), frame)

\* f without key k
Del(f, k) == [x \in DOMAIN f \ {k} |-> f[x]]

\* sorted(self.controllers.items(), key = created_at), the ids only
RECURSIVE SortedByCreation(_)
SortedByCreation(controllers) ==
    IF DOMAIN controllers = {} THEN << >>
    ELSE LET oldest == CHOOSE c \in DOMAIN controllers :
                           \A d \in DOMAIN controllers :
                               controllers[c].created_at <= controllers[d].created_at
         IN  << oldest >> \o SortedByCreation(Del(controllers, oldest))

\* the first n elements of s
Take(s, n) == SubSeq(s, 1, IF n < Len(s) THEN n ELSE Len(s))

\* the other variables belong to the review agent
AgentUnchanged ==
    UNCHANGED << config, files, items, work_queue, active_reviews, dashboard_data,
                 agent_performance, improvement_plans, swept, history, scores, pc,
                 work_item, quality_standard, fixed_count, passes, log >>

\* the manager when the call on top of the stack of t returns value and leaves the
\* controllers as after; lock is the holder of the lock after the return
Returns(t, value, after, lock, present) ==
    [manager EXCEPT
       !.controllers = after.controllers,
       !.listener_counts = after.listener_counts,
       !.lock = lock,
       !.stack[t] = Popped(t),
       !.returned[t] =
           [op |-> Top(t).op, controller_id |-> Top(t).controller_id, value |-> value,
            present |-> present,
            removed |-> /\ Top(t).controller_id \notin DOMAIN after.controllers
                        /\ Top(t).controller_id \notin DOMAIN after.listener_counts]]

\* a thread with no call under way calls a method of the manager
Call(t, op, controller_id, listener_id) ==
    /\ manager.stack[t] = << >>
    /\ manager.calls < MaxCalls
    /\ manager' = [manager EXCEPT !.stack[t] = << Frame(op, controller_id, listener_id) >>,
                                  !.calls = @ + 1]
    /\ AgentUnchanged

\* the new controller of create_controller
Created(controller_id) ==
    [controllers |->
         Put(manager.controllers, controller_id,
             [id |-> controller_id, created_at |-> manager.clock + 1, aborted |-> FALSE,
              listeners |-> {}]),
     listener_counts |-> Put(manager.listener_counts, controller_id, 0)]

\* create_controller: under the lock, at the limit the oldest controllers are cleaned
\* up first (pc "evicted" is the return of _cleanup_oldest_controllers); then the
\* controller is stored with a listener count of 0 and its id returned
create_controller(t) ==
    /\ Running(t, "create_controller")
    /\ Top(t).pc = "lock" => manager.lock = 0
    /\ manager' =
           IF /\ Top(t).pc = "lock"
              /\ Cardinality(DOMAIN manager.controllers) >= MaxControllers
           THEN [manager EXCEPT
                   !.lock = t,
                   !.stack[t] = Append(WithTop(t, [Top(t) EXCEPT !.pc = "evicted"]),
                                       [Frame("_cleanup_oldest_controllers", "", "")
                                           EXCEPT !.pc = "sort"])]
           ELSE [Returns(t, Top(t).controller_id, Created(Top(t).controller_id), 0, FALSE)
                    EXCEPT !.clock = @ + 1]
    /\ AgentUnchanged

\* _cleanup_oldest_controllers: the ids sorted by creation time, cleanup_controller
\* called for the first count of them, one after the other
_cleanup_oldest_controllers(t) ==
    /\ Running(t, "_cleanup_oldest_controllers")
    /\ LET todo == IF Top(t).pc = "sort"
                   THEN Take(SortedByCreation(manager.controllers), oldest_count)
                   ELSE Top(t).todo
       IN  manager' =
               IF todo = << >>
               THEN [manager EXCEPT !.stack[t] = Popped(t)]
               ELSE [manager EXCEPT
                       !.stack[t] = Append(WithTop(t, [Top(t) EXCEPT !.pc = "loop",
                                                                     !.todo = Tail(todo)]),
                                           Frame("cleanup_controller", Head(todo), ""))]
    /\ AgentUnchanged

\* add_listener: under the lock; False for an unknown or aborted controller, else the
\* listener is added to the set and the count goes up by one
add_listener(t) ==
    /\ Running(t, "add_listener")
    /\ manager.lock = 0
    /\ LET id == Top(t).controller_id
           known == id \in DOMAIN manager.controllers
       IN  manager' =
               IF ~known \/ manager.controllers[id].aborted
               THEN Returns(t, "False", manager, 0, known)
               ELSE Returns(t, "True",
                            [controllers |->
                                 [manager.controllers EXCEPT
                                    ![id].listeners = @ \cup {Top(t).listener_id}],
                             listener_counts |->
                                 [manager.listener_counts EXCEPT ![id] = @ + 1]],
                            0, known)
    /\ AgentUnchanged

\* abort_controller: under the lock; False for an unknown controller, else the
\* controller is marked aborted, its listeners cleared and its count set to 0.  The
\* lock is free when the with block is left, whoever called
abort_controller(t) ==
    /\ Running(t, "abort_controller")
    /\ manager.lock = 0
    /\ LET id == Top(t).controller_id
           known == id \in DOMAIN manager.controllers
       IN  manager' =
               IF ~known
               THEN Returns(t, "False", manager, 0, known)
               ELSE Returns(t, "True",
                            [controllers |->
                                 [manager.controllers EXCEPT ![id].aborted = TRUE,
                                                             ![id].listeners = {}],
                             listener_counts |->
                                 [manager.listener_counts EXCEPT ![id] = 0]],
                            0, known)
    /\ AgentUnchanged

\* cleanup_controller: under the lock; False for an unknown controller, else
\* abort_controller is called with the lock held (pc "aborted" is its return), the
\* controller and its count are deleted and True is returned.  Leaving the with block
\* releases the lock, which raises RuntimeError when the lock is not locked
cleanup_controller(t) ==
    /\ Running(t, "cleanup_controller")
    /\ Top(t).pc = "lock" => manager.lock = 0
    /\ LET id == Top(t).controller_id
       IN  manager' =
               IF Top(t).pc = "lock"
               THEN IF id \in DOMAIN manager.controllers
                    THEN [manager EXCEPT
                            !.lock = t,
                            !.stack[t] = Append(WithTop(t, [Top(t) EXCEPT !.pc = "aborted"]),
                                                Frame("abort_controller", id, ""))]
                    ELSE Returns(t, "False", manager, 0, FALSE)
               ELSE Returns(t, IF manager.lock = 0 THEN "RuntimeError" ELSE "True",
                            [controllers |-> Del(manager.controllers, id),
                             listener_counts |-> Del(manager.listener_counts, id)],
                            0, TRUE)
    /\ AgentUnchanged

\* the manager alone, called by the threads
InitManager ==
    /\ config = _load_config(<< >>)
    /\ files = [p \in Paths |-> << >>]
    /\ items = << >>
    /\ work_queue = << >>
    /\ active_reviews = {}
    /\ dashboard_data = [total_reviews |-> 0, passed_reviews |-> 0, failed_reviews |-> 0,
                         auto_fixes |-> 0, agent_scores |-> << >>,
                         project_health |-> << >>]
    /\ agent_performance = << >>
    /\ improvement_plans = << >>
    /\ swept = FALSE
    /\ history = NoHistory
    /\ manager = NewManager
    /\ scores = << >>
    /\ pc = "get"
    /\ work_item = 0
    /\ quality_standard = ""
    /\ fixed_count = 0
    /\ passes = 0
    /\ log = NoLog

NextManager ==
    \E t \in Threads :
        \/ \E op \in {"create_controller", "abort_controller", "cleanup_controller"},
              controller_id \in ControllerIds : Call(t, op, controller_id, "")
        \/ \E controller_id \in ControllerIds, listener_id \in Listeners :
               Call(t, "add_listener", controller_id, listener_id)
        \/ create_controller(t)
        \/ _cleanup_oldest_controllers(t)
        \/ add_listener(t)
        \/ abort_controller(t)
        \/ cleanup_controller(t)

SpecManager == InitManager /\ [][NextManager]_vars

\* a thread waits at `with self._lock' for the lock it holds itself
WaitsForItself(t) ==
    /\ manager.stack[t] # << >>
    /\ Top(t).pc = "lock"
    /\ manager.lock = t

\* C30: no call of the manager waits for a lock its own thread holds (such a call
\* never returns, and no call of another thread does after it); the lock is free
\* when no call is under way; cleanup_controller of a present controller returns True
\* with the controller and its listener count removed; create_controller returns the
\* id it was given, and there are never more than max_controllers controllers.
C30_CallsReturnAndReleaseTheLock ==
    /\ \A t \in Threads : ~WaitsForItself(t)
    /\ (\A t \in Threads : manager.stack[t] = << >>) => manager.lock = 0
    /\ \A t \in Threads :
           LET r == manager.returned[t]
           IN  /\ (r.op = "cleanup_controller" /\ r.present)
                      => (r.value = "True" /\ r.removed)
               /\ r.op = "create_controller" => r.value = r.controller_id
    /\ Cardinality(DOMAIN manager.controllers) <= MaxControllers
=============================================================================
